---- MODULE Spec2Model ----
(***************************************************************************)
(* Job execution engine of simple_backup_manager: JobExecutor (and its     *)
(* line-for-line twin RcloneExecutor) on top of JobStorage.                 *)
(*                                                                          *)
(* Threads of the program are modelled explicitly:                         *)
(*   - callers   : threads of the HTTP layer inside start_job, stop_job or  *)
(*                 restart_failed_jobs (variable calls);                    *)
(*   - chains    : one per accepted start_job: the worker thread running    *)
(*                 _execute_rsync_job and the retry threads it leaves       *)
(*                 behind (variable chain), with the external process of    *)
(*                 the current attempt (variable proc).                     *)
(* A step is one lock-protected section or one storage call; storage calls  *)
(* are atomic because JobStorage serialises them with its RLock.            *)
(*                                                                          *)
(* Timing assumptions (documented, both bounded waits of the code):         *)
(*   - time.sleep(backoff), backoff >= 1s, outlasts the non-blocking        *)
(*     finally block of the attempt that scheduled the retry, and any       *)
(*     control call that was running when the sleep began (a call is a      *)
(*     few non-blocking statements; calls[k].slept records the sleeps that  *)
(*     began during it);                                                    *)
(*   - thread.join(timeout=5) in stop_job outlasts the remaining            *)
(*     non-blocking steps of a worker whose process is dead.                *)
(***************************************************************************)
EXTENDS Integers, FiniteSets, Sequences, TLC

\* ------------------------------------------------------------------ bounds
MaxStarts == 2
MaxCallers == 1
MaxRetriesBound == 2
\* threads inside JobStorage calls, and calls they make in all
MaxThreads == 2
MaxCalls == 2
\* backup files on disk when a store is loaded
MaxBackups == 3

\* results of reads held by callers
MaxReads == 2

\* --------------------------------------------------------------- constants
JobIds == {"j1"}
\* the executor a job belongs to: JobExecutor (rsync) or RcloneExecutor (rclone)
JobKind == [j1 |-> "rsync"]
\* order of the records in the store's list
JobOrder == <<"j1", "j2">>
Chains == 1..MaxStarts
Callers == 1..MaxCallers
None == 0

VARIABLES
  jobs,           \* JobStorage._jobs["jobs"]: id -> record (absent ids are not in DOMAIN);
                  \* in the specifications of the store itself the list of records
  running_jobs,   \* JobExecutor.running_jobs: id -> worker thread (chain) or None
  job_processes,  \* JobExecutor.job_processes: id -> process (of a chain) or None
  stop_flags,     \* JobExecutor.stop_flags: id -> "absent" | "clear" | "set"
  paused_jobs,    \* JobExecutor.paused_jobs: id -> "absent" | "no" | "yes"
  chain,          \* worker / retry threads, one slot per accepted start
  proc,           \* external process of each chain's current attempt
  calls,          \* control operations in flight
  hist,           \* history (observation only): what has happened to each job
  os_name,        \* os.name of the platform the program runs on
  files,          \* the store's files on disk: primary, temp file, backups
  lock,           \* JobStorage._lock: the thread that holds it, or None
  ops,            \* threads inside a JobStorage call
  returned,       \* history (observation only): what the store's calls returned
  heap,           \* the dict objects of the store and of its callers, by reference
  views           \* the references a caller got from get_job / get_all_jobs

\* the executor's variables, and those of the platform and the persistence layer
execvars == <<running_jobs, job_processes, stop_flags, paused_jobs,
              chain, proc, calls, hist>>

envvars == <<os_name, files, lock, ops, returned, heap, views>>

vars == <<jobs, running_jobs, job_processes, stop_flags, paused_jobs,
          chain, proc, calls, hist, os_name, files, lock, ops, returned, heap, views>>

\* ------------------------------------------------------------- pure helpers
Min(a, b) == IF a < b THEN a ELSE b

RECURSIVE Pow2(_)
Pow2(n) == IF n = 0 THEN 1 ELSE 2 * Pow2(n - 1)

\* cap of the exponential backoff, seconds
BackoffCap(kind) == IF kind = "rsync" THEN 60 ELSE 30

\* backoff = min(2 ** retry_count, cap)
Backoff(retry_count, kind) == Min(Pow2(retry_count), BackoffCap(kind))

\* -------------------------------------------------------------- the records
\* progress substructure; a field that is not in the dict is Absent / "-"
Absent == -1
NoProgress ==
  [status |-> "-", percent |-> Absent, retry_attempt |-> Absent,
   bytes_transferred |-> Absent, error_message |-> FALSE]

Progress(st, pct, ra, bytes, err) ==
  [status |-> st, percent |-> pct, retry_attempt |-> ra,
   bytes_transferred |-> bytes, error_message |-> err]

\* JobStorage.create_job: status created, retry_count 0, max_retries as given
NewJob(kind, m) ==
  [kind |-> kind, status |-> "created", retry_count |-> 0, max_retries |-> m,
   progress |-> NoProgress]

NoChain ==
  [job |-> "-", pc |-> "unused", attempt |-> 0,
   retry_count |-> 0, max_retries |-> 0, backoff |-> 0]

Idle ==
  [op |-> "idle", pc |-> "-", job |-> "-", retry_count |-> 0, max_retries |-> 0,
   thread |-> None, process |-> None, todo |-> <<>>, count |-> 0, slept |-> {},
   kind |-> "-", seen |-> <<>>]

\* paused: the process suspended by a pause and not resumed since;
\* resumed: the process continued by the last resume that returned True
NoHist ==
  [retries |-> 0, stopped_ok |-> FALSE, gave_up |-> FALSE,
   paused |-> None, resumed |-> None]

\* ------------------------------------------------------------ JobStorage API
\* get_job: a copy of the record, or None
HasJob(j) == j \in DOMAIN jobs

\* dict.update: the fields of updates are set, the other fields are kept
dict_update(d, updates) ==
  [f \in DOMAIN d \cup DOMAIN updates |->
     IF f \in DOMAIN updates THEN updates[f] ELSE d[f]]

\* update_job: dict.update on the stored record; a warning and no change if absent
update_job_upsert(js, j, updates) ==
  IF j \in DOMAIN js
    THEN [js EXCEPT ![j] = dict_update(js[j], updates)]
    ELSE [i \in DOMAIN js \cup {j} |-> IF i = j THEN updates ELSE js[i]]

update_job(js, j, updates) ==
  IF j \in DOMAIN js
    THEN [js EXCEPT ![j] = dict_update(js[j], updates)]
    ELSE js

\* increment_retry_count: get_job, then update_job with retry_count + 1
increment_retry_count(js, j) ==
  IF j \in DOMAIN js
    THEN update_job(js, j, [retry_count |-> js[j].retry_count + 1])
    ELSE js

\* get_failed_jobs: copies of the records with status failed, in list order
\* (only JobStorage has it: the operation store has no restart of failed ones)
IsFailedJob(js, j) == j \in DOMAIN js /\ js[j].kind = "rsync" /\ js[j].status = "failed"

get_failed_jobs(js) == SelectSeq(JobOrder, LAMBDA j : IsFailedJob(js, j))

\* JobExecutor._update_progress: progress replaced, status taken from it
\* (default running)
ProgressStatus(p) == IF p.status = "-" THEN "running" ELSE p.status

update_progress(js, j, p) ==
  update_job(js, j, [progress |-> p, status |-> ProgressStatus(p)])

\* ------------------------------------------------------------------- Init
\* the persistence layer is not followed: every storage call of the executor
\* is taken to succeed, and the files hold what the store holds in memory
File(kind, data) == [kind |-> kind, data |-> data]

NoFile == File("none", <<>>)

NoFiles == [primary |-> File("untracked", <<>>), tmp |-> NoFile, backups |-> <<>>]

StoreUntracked ==
  /\ files = NoFiles
  /\ lock = None
  /\ ops = <<>>
  /\ returned = <<>>
  /\ heap = <<>>
  /\ views = <<>>

\* JobExecutor.__init__: empty registries
EmptyRegistry ==
  /\ running_jobs = [j \in JobIds |-> None]
  /\ job_processes = [j \in JobIds |-> None]
  /\ stop_flags = [j \in JobIds |-> "absent"]
  /\ paused_jobs = [j \in JobIds |-> "absent"]
  /\ chain = [c \in Chains |-> NoChain]
  /\ proc = [c \in Chains |-> "none"]
  /\ calls = [k \in Callers |-> Idle]
  /\ hist = [j \in JobIds |-> NoHist]

\* JobExecutor.__init__ on a Unix platform; the store holds freshly created jobs
Init ==
  /\ \E m \in [JobIds -> 0..MaxRetriesBound] :
       jobs = [j \in JobIds |-> NewJob(JobKind[j], m[j])]
  /\ EmptyRegistry
  /\ os_name = "posix"
  /\ StoreUntracked

\* ------------------------------------------------------------ thread states
UsedChains == {c \in Chains : chain[c].pc # "unused"}

\* start_job calls that have not yet created their thread
StartsInFlight == {k \in Callers : calls[k].pc \in {"check", "spawn"}}

\* threading.Thread.is_alive of the worker thread created by a start_job:
\* it ends with the finally block of the first attempt
ThreadAlive(c) ==
  /\ c # None
  /\ chain[c].attempt = 0
  /\ chain[c].pc \in {"start", "running", "read", "stopcheck", "wait", "failure", "finally"}

\* subprocess.Popen.poll() is None
ProcAlive(c) == c # None /\ proc[c] \in {"running", "stopped"}

ProcExited(c) == proc[c] \in {"exit0", "exitN"}

\* a chain is inside _execute_rsync_job (an execution attempt)
Executing(c) ==
  chain[c].pc \in {"start", "running", "read", "stopcheck", "wait", "failure", "finally"}

\* how a control call hands its value back: start_job called from the HTTP
\* layer returns to it, start_job called from restart_failed_jobs returns
\* into the loop, which counts the successes
Return(k, ok) ==
  IF calls[k].op = "restart_failed"
    THEN calls' = [calls EXCEPT ![k] =
                     [@ EXCEPT !.pc = "loop", !.job = "-", !.retry_count = 0,
                               !.max_retries = 0, !.thread = None,
                               !.count = IF ok THEN @ + 1 ELSE @]]
    ELSE calls' = [calls EXCEPT ![k] = Idle]

\* --------------------------------------------------------------- start_job
\* lines 254-257: job_data = storage.get_job(job_id); not found -> False
start_job_lookup(k, j) ==
  /\ \/ calls[k].op = "idle"
     \/ /\ calls[k].op = "restart_failed" /\ calls[k].pc = "loop"
        /\ calls[k].todo # <<>> /\ j = Head(calls[k].todo)
  /\ Cardinality(UsedChains) + Cardinality(StartsInFlight) < MaxStarts
  /\ LET op == IF calls[k].op = "idle" THEN "start" ELSE calls[k].op
         me == [calls[k] EXCEPT !.op = op, !.job = j,
                                !.todo = IF @ = <<>> THEN @ ELSE Tail(@)]
     IN IF HasJob(j)
          THEN calls' = [calls EXCEPT ![k] =
                           [me EXCEPT !.pc = "check",
                                      !.retry_count = jobs[j].retry_count,
                                      !.max_retries = jobs[j].max_retries]]
          ELSE IF op = "start"
                 THEN calls' = [calls EXCEPT ![k] = Idle]
                 ELSE calls' = [calls EXCEPT ![k] = [me EXCEPT !.job = "-"]]
  /\ UNCHANGED envvars
  /\ UNCHANGED <<jobs, running_jobs, job_processes, stop_flags, paused_jobs,
                 chain, proc, hist>>

\* lines 259-267: under _state_lock, reject if job_id in running_jobs,
\* else create job_locks / stop_flags / paused_jobs entries
start_job_registered(j) == running_jobs[j] # None

start_job_check(k) ==
  /\ calls[k].pc = "check"
  /\ LET j == calls[k].job
     IN IF start_job_registered(j)
          THEN /\ Return(k, FALSE)
               /\ UNCHANGED <<stop_flags, paused_jobs, hist>>
          ELSE /\ stop_flags' = [stop_flags EXCEPT ![j] = "clear"]
               /\ paused_jobs' = [paused_jobs EXCEPT ![j] = "no"]
               /\ calls' = [calls EXCEPT ![k].pc = "spawn"]
               /\ hist' = [hist EXCEPT ![j].stopped_ok = FALSE,
                                       ![j].gave_up = IF calls[k].op = "start" THEN FALSE ELSE @]
  /\ UNCHANGED envvars
  /\ UNCHANGED <<jobs, running_jobs, job_processes, chain, proc>>

\* lines 273-279: storage.update_job(job_id, {"retry_count": 0}), then the
\* worker thread is created on the job_data read at line 254 and started
NextChain == CHOOSE c \in Chains : c \notin UsedChains /\ \A d \in Chains \ UsedChains : c <= d

start_job_data(k) == [retry_count |-> calls[k].retry_count, max_retries |-> calls[k].max_retries]

start_job_spawn(k) ==
  /\ calls[k].pc = "spawn"
  /\ LET j == calls[k].job
         c == NextChain
         d == start_job_data(k)
     IN /\ jobs' = update_job(jobs, j, [retry_count |-> 0])
        /\ chain' = [chain EXCEPT ![c] =
                       [job |-> j, pc |-> "start", attempt |-> 0,
                        retry_count |-> d.retry_count, max_retries |-> d.max_retries,
                        backoff |-> 0]]
        /\ calls' = [calls EXCEPT ![k].pc = "register", ![k].thread = c]
  /\ UNCHANGED envvars
  /\ UNCHANGED <<running_jobs, job_processes, stop_flags, paused_jobs, proc, hist>>

\* lines 281-284: under _state_lock, running_jobs[job_id] = thread; True
start_job_register(k) ==
  /\ calls[k].pc = "register"
  /\ running_jobs' = [running_jobs EXCEPT ![calls[k].job] = calls[k].thread]
  /\ Return(k, TRUE)
  /\ UNCHANGED envvars
  /\ UNCHANGED <<jobs, job_processes, stop_flags, paused_jobs, chain, proc, hist>>

\* ------------------------------------------------------ restart_failed_jobs
\* lines 356-363: the failed jobs as read once, those with retry budget left
CanRestart_inclusive(js, j) == js[j].retry_count <= js[j].max_retries

CanRestart(js, j) == js[j].retry_count < js[j].max_retries

restart_failed_jobs_begin(k) ==
  /\ calls[k].op = "idle"
  /\ calls' = [calls EXCEPT ![k] =
                 [Idle EXCEPT !.op = "restart_failed", !.pc = "loop",
                              !.todo = SelectSeq(get_failed_jobs(jobs),
                                                 LAMBDA j : CanRestart(jobs, j))]]
  /\ UNCHANGED envvars
  /\ UNCHANGED <<jobs, running_jobs, job_processes, stop_flags, paused_jobs,
                 chain, proc, hist>>

\* line 368: return restarted_count
restart_failed_jobs_return(k) ==
  /\ calls[k].op = "restart_failed" /\ calls[k].pc = "loop" /\ calls[k].todo = <<>>
  /\ calls' = [calls EXCEPT ![k] = Idle]
  /\ UNCHANGED envvars
  /\ UNCHANGED <<jobs, running_jobs, job_processes, stop_flags, paused_jobs,
                 chain, proc, hist>>

\* ---------------------------------------------------------------- stop_job
\* a start_job call on j that has passed its lookup and not yet returned
\* (observation only; a stop call keeps in count the number of starts accepted
\* when it began, to tell whether start was called while it was running)
StartInFlight(j) ==
  \E k \in Callers : calls[k].job = j /\ calls[k].pc \in {"check", "spawn", "register"}

\* the start_job calls on j accepted so far (observation only)
StartsAccepted(j) ==
  Cardinality({c \in UsedChains : chain[c].job = j})
    + Cardinality({k \in Callers : calls[k].job = j /\ calls[k].pc = "spawn"})

\* line 290: tracked if in running_jobs or in job_processes
stop_job_tracked(j) == running_jobs[j] # None \/ job_processes[j] # None

\* lines 288-331: under _state_lock: not tracked -> False; set the stop flag if
\* there is one; take the process and thread references; then SIGTERM to the
\* process group, wait(timeout=10), SIGKILL: the process is dead afterwards
stop_job_signal(k, j) ==
  /\ calls[k].op = "idle"
  /\ IF ~ stop_job_tracked(j)
       THEN UNCHANGED <<calls, stop_flags, proc>>
       ELSE /\ stop_flags' = [stop_flags EXCEPT ![j] = IF @ = "absent" THEN @ ELSE "set"]
            /\ proc' = IF ProcAlive(job_processes[j])
                         THEN [proc EXCEPT ![job_processes[j]] = "exitN"]
                         ELSE proc
            /\ calls' = [calls EXCEPT ![k] =
                           [Idle EXCEPT !.op = "stop", !.pc = "join", !.job = j,
                                        !.thread = running_jobs[j],
                                        !.count = StartsAccepted(j)]]
  /\ UNCHANGED envvars
  /\ UNCHANGED <<jobs, running_jobs, job_processes, paused_jobs, chain, hist>>

\* thread.join(timeout=5) returns: the worker thread has ended, or the worker
\* is still blocked on a live process (readline / wait) when the 5s are over
JoinReturns(c) ==
  \/ ~ ThreadAlive(c)
  \/ c # None /\ chain[c].pc \in {"read", "wait"} /\ ProcAlive(c)

\* lines 333-346: join the worker thread, then
\* _update_progress(job_id, {"status": "stopped", ...}); True
stop_job_finish(k) ==
  /\ calls[k].op = "stop" /\ calls[k].pc = "join"
  /\ JoinReturns(calls[k].thread)
  /\ LET j == calls[k].job
     IN /\ jobs' = update_progress(jobs, j, Progress("stopped", Absent, Absent, Absent, FALSE))
        /\ hist' = [hist EXCEPT ![j].stopped_ok =
                                  ~ StartInFlight(j) /\ StartsAccepted(j) = calls[k].count]
  /\ Return(k, TRUE)
  /\ UNCHANGED envvars
  /\ UNCHANGED <<running_jobs, job_processes, stop_flags, paused_jobs, chain, proc>>

\* ------------------------------------------------- pause_job / resume_job
\* pause_job lines 372-381, resume_job lines 411-420, under _state_lock:
\* False if job_id is not in job_processes, or if paused_jobs.get(job_id, False)
\* is already what the call wants; else process = job_processes.get(job_id)
is_paused(j) == paused_jobs[j] = "yes"

pause_job_check(k, j) ==
  /\ calls[k].op = "idle"
  /\ IF job_processes[j] = None \/ is_paused(j)
       THEN UNCHANGED calls
       ELSE calls' = [calls EXCEPT ![k] =
                        [Idle EXCEPT !.op = "pause", !.pc = "signal", !.job = j,
                                     !.process = job_processes[j]]]
  /\ UNCHANGED envvars
  /\ UNCHANGED <<jobs, running_jobs, job_processes, stop_flags, paused_jobs,
                 chain, proc, hist>>

resume_job_check(k, j) ==
  /\ calls[k].op = "idle"
  /\ IF job_processes[j] = None \/ ~ is_paused(j)
       THEN UNCHANGED calls
       ELSE calls' = [calls EXCEPT ![k] =
                        [Idle EXCEPT !.op = "resume", !.pc = "signal", !.job = j,
                                     !.process = job_processes[j]]]
  /\ UNCHANGED envvars
  /\ UNCHANGED <<jobs, running_jobs, job_processes, stop_flags, paused_jobs,
                 chain, proc, hist>>

\* lines 384-385 / 423-424: process and process.poll() is None, os.name != 'nt'
can_signal_any_platform(p) == ProcAlive(p)

can_signal(p) == ProcAlive(p) /\ os_name # "nt"

\* lines 384-401: SIGSTOP to the process group and paused_jobs[job_id] = True
\* under _state_lock; False if the process has exited or on Windows
pause_job_signal(k) ==
  /\ calls[k].op = "pause" /\ calls[k].pc = "signal"
  /\ LET j == calls[k].job
         p == calls[k].process
     IN IF can_signal(p)
          THEN /\ proc' = [proc EXCEPT ![p] = "stopped"]
               /\ paused_jobs' = [paused_jobs EXCEPT ![j] = "yes"]
               /\ calls' = [calls EXCEPT ![k].pc = "store"]
               /\ hist' = [hist EXCEPT ![j].paused = p, ![j].resumed = None]
          ELSE /\ Return(k, FALSE)
               /\ UNCHANGED <<proc, paused_jobs, hist>>
  /\ UNCHANGED envvars
  /\ UNCHANGED <<jobs, running_jobs, job_processes, stop_flags, chain>>

\* lines 423-440: SIGCONT to the process group and paused_jobs[job_id] = False
resume_job_signal(k) ==
  /\ calls[k].op = "resume" /\ calls[k].pc = "signal"
  /\ LET j == calls[k].job
         p == calls[k].process
     IN IF can_signal(p)
          THEN /\ proc' = [proc EXCEPT ![p] = "running"]
               /\ paused_jobs' = [paused_jobs EXCEPT ![j] = "no"]
               /\ calls' = [calls EXCEPT ![k].pc = "store"]
          ELSE /\ Return(k, FALSE)
               /\ UNCHANGED <<proc, paused_jobs>>
  /\ UNCHANGED envvars
  /\ UNCHANGED <<jobs, running_jobs, job_processes, stop_flags, chain, hist>>

\* lines 392-396: _update_progress(job_id, {"status": "paused", "paused_at"}); True
pause_progress == Progress("paused", Absent, Absent, Absent, FALSE)

pause_job_store(k) ==
  /\ calls[k].op = "pause" /\ calls[k].pc = "store"
  /\ LET j == calls[k].job
     IN jobs' = update_progress(jobs, j, pause_progress)
  /\ Return(k, TRUE)
  /\ UNCHANGED envvars
  /\ UNCHANGED <<running_jobs, job_processes, stop_flags, paused_jobs, chain, proc,
                 hist>>

\* lines 431-435: _update_progress(job_id, {"status": "running", "resumed_at"}); True
resume_progress_paused == Progress("paused", Absent, Absent, Absent, FALSE)

resume_progress == Progress("running", Absent, Absent, Absent, FALSE)

resume_job_store(k) ==
  /\ calls[k].op = "resume" /\ calls[k].pc = "store"
  /\ LET j == calls[k].job
     IN /\ jobs' = update_progress(jobs, j, resume_progress)
        /\ hist' = [hist EXCEPT ![j].paused = None, ![j].resumed = calls[k].process]
  /\ Return(k, TRUE)
  /\ UNCHANGED envvars
  /\ UNCHANGED <<running_jobs, job_processes, stop_flags, paused_jobs, chain, proc>>

\* ------------------- cleanup_zombie_jobs / cleanup_zombie_operations
\* get_all_jobs / get_all_operations: the records in list order
list_ids(js) == SelectSeq(JobOrder, LAMBDA j : j \in DOMAIN js)

\* job_executor.py line 458: status == "running";
\* rclone_executor.py line 467: problematic_statuses
problematic_statuses(kind) ==
  IF kind = "rsync"
    THEN {"running"}
    ELSE {"running", "scanning", "pending_approval", "preview_failed", "initializing"}

\* line 460 (rclone 471): job_id in self.running_jobs or job_id in self.job_processes
is_tracked_worker_only(j) == running_jobs[j] # None

is_tracked(j) == running_jobs[j] # None \/ job_processes[j] # None

\* datetime.now() when the reconciler runs, seconds
Now == 7200

\* rclone_executor.py line 483: age > timedelta(hours=1), in seconds
GracePeriod == 3600

older_than_grace_inclusive(created_at) == Now - created_at >= GracePeriod

older_than_grace(created_at) == Now - created_at > GracePeriod

\* lines 465-469 (rclone 486-490): the update that reclassifies a zombie
zombie_update == [status |-> "failed", error_message |-> "zombie"]

\* line 451 (rclone 460): the list of records is read once. get_all_jobs
\* returns the store's own dicts, get_all_operations a copy of each record
cleanup_zombie_begin(k, kind) ==
  /\ calls[k].op = "idle"
  /\ \A j \in DOMAIN jobs : jobs[j].kind = kind
  /\ calls' = [calls EXCEPT ![k] =
                 [Idle EXCEPT !.op = "cleanup", !.pc = "status", !.kind = kind,
                              !.todo = list_ids(jobs), !.seen = jobs]]
  /\ returned' = [op |-> "cleanup", kind |-> kind, before |-> jobs, value |-> None,
                  alone |-> \A k2 \in Callers : calls[k2].op # "cleanup"]
  /\ UNCHANGED <<os_name, files, lock, ops, heap, views>>
  /\ UNCHANGED <<jobs, running_jobs, job_processes, stop_flags, paused_jobs,
                 chain, proc, hist>>

\* the status the loop sees: of the store's dict for a job (as it is now, or
\* as it was when the record was deleted from the list), of the copy for an
\* operation
status_seen(k, j) ==
  IF calls[k].kind = "rsync" /\ j \in DOMAIN jobs
    THEN jobs[j].status
    ELSE calls[k].seen[j].status

\* lines 454-458 (rclone 463-469): next record; is its status a problematic one
cleanup_zombie_status(k) ==
  /\ calls[k].op = "cleanup" /\ calls[k].pc = "status" /\ calls[k].todo # <<>>
  /\ LET j == Head(calls[k].todo)
     IN IF status_seen(k, j) \in problematic_statuses(calls[k].kind)
          THEN calls' = [calls EXCEPT ![k].pc = "tracked"]
          ELSE calls' = [calls EXCEPT ![k].todo = Tail(@)]
  /\ UNCHANGED envvars
  /\ UNCHANGED <<jobs, running_jobs, job_processes, stop_flags, paused_jobs,
                 chain, proc, hist>>

\* lines 459-462 (rclone 470-473): is_tracked, read under _state_lock
cleanup_zombie_tracked(k) ==
  /\ calls[k].op = "cleanup" /\ calls[k].pc = "tracked"
  /\ LET j == Head(calls[k].todo)
     IN IF is_tracked(j)
          THEN calls' = [calls EXCEPT ![k].pc = "status", ![k].todo = Tail(@)]
          ELSE calls' = [calls EXCEPT ![k].pc = "write"]
  /\ UNCHANGED envvars
  /\ UNCHANGED <<jobs, running_jobs, job_processes, stop_flags, paused_jobs,
                 chain, proc, hist>>

\* lines 463-471: a job is marked failed and counted;
\* rclone lines 474-494: an operation only if it is older than the grace period
cleanup_zombie_write(k) ==
  /\ calls[k].op = "cleanup" /\ calls[k].pc = "write"
  /\ LET j == Head(calls[k].todo)
         cleans == \/ calls[k].kind = "rsync"
                   \/ older_than_grace(calls[k].seen[j].created_at)
     IN /\ jobs' = IF cleans THEN update_job(jobs, j, zombie_update) ELSE jobs
        /\ calls' = [calls EXCEPT ![k].pc = "status", ![k].todo = Tail(@),
                                  ![k].count = IF cleans THEN @ + 1 ELSE @]
  /\ UNCHANGED envvars
  /\ UNCHANGED <<running_jobs, job_processes, stop_flags, paused_jobs,
                 chain, proc, hist>>

\* line 473 (rclone 496): return cleaned
cleanup_zombie_return(k) ==
  /\ calls[k].op = "cleanup" /\ calls[k].pc = "status" /\ calls[k].todo = <<>>
  /\ returned' = [returned EXCEPT !.value = calls[k].count]
  /\ calls' = [calls EXCEPT ![k] = Idle]
  /\ UNCHANGED <<os_name, files, lock, ops, heap, views>>
  /\ UNCHANGED <<jobs, running_jobs, job_processes, stop_flags, paused_jobs,
                 chain, proc, hist>>

\* ------------------------------------------------- JobStorage.delete_job
delete_job(j) ==
  /\ HasJob(j)
  /\ jobs' = [i \in DOMAIN jobs \ {j} |-> jobs[i]]
  /\ UNCHANGED envvars
  /\ UNCHANGED <<running_jobs, job_processes, stop_flags, paused_jobs,
                 chain, proc, calls, hist>>

\* ------------------------------------------------------ _execute_rsync_job
LineKinds == {"plain", "bytes", "files"}

\* _parse_rsync_progress: "sent N bytes" gives bytes_transferred, "files..."
\* gives status running, anything else None
parse_rsync_progress(kind) ==
  CASE kind = "bytes" -> Progress("-", Absent, Absent, 1, FALSE)
    [] kind = "files" -> Progress("running", Absent, Absent, Absent, FALSE)
    [] OTHER -> NoProgress

\* the kind of executor that runs the job (its record is gone: rsync)
KindOf(j) == IF HasJob(j) THEN jobs[j].kind ELSE "rsync"

\* _parse_rclone_progress: a "Transferred:" line with a percentage gives
\* percent and status running, "files..." or "Checking" gives status scanning
parse_rclone_progress(kind) ==
  CASE kind = "bytes" -> Progress("running", 10, Absent, Absent, FALSE)
    [] kind = "files" -> Progress("scanning", Absent, Absent, Absent, FALSE)
    [] OTHER -> NoProgress

\* line 108 (rclone 112): the parser of the executor the job belongs to
parse_progress(jobkind, kind) ==
  IF jobkind = "rsync" THEN parse_rsync_progress(kind) ELSE parse_rclone_progress(kind)

\* line 99 / 113: job_id in self.stop_flags and self.stop_flags[job_id].is_set()
stop_requested(j) == stop_flags[j] = "set"

\* lines 62-84: build the command, Popen in a new process group,
\* job_processes[job_id] = process under _state_lock
execute_spawn(c) ==
  /\ chain[c].pc = "start"
  /\ proc' = [proc EXCEPT ![c] = "running"]
  /\ job_processes' = [job_processes EXCEPT ![chain[c].job] = c]
  /\ chain' = [chain EXCEPT ![c].pc = "running"]
  /\ UNCHANGED envvars
  /\ UNCHANGED <<jobs, running_jobs, stop_flags, paused_jobs, calls, hist>>

\* lines 157-164: an exception while building or spawning: status failed with
\* the exception text, no call of _handle_job_failure
execute_exception(c) ==
  /\ chain[c].pc = "start"
  /\ jobs' = update_progress(jobs, chain[c].job,
                             Progress("failed", Absent, Absent, Absent, TRUE))
  /\ chain' = [chain EXCEPT ![c].pc = "finally"]
  /\ UNCHANGED envvars
  /\ UNCHANGED <<running_jobs, job_processes, stop_flags, paused_jobs, proc, calls, hist>>

\* lines 87-93: status running, percent 0
execute_running(c) ==
  /\ chain[c].pc = "running"
  /\ jobs' = update_progress(jobs, chain[c].job,
                             Progress("running", 0, Absent, 0, FALSE))
  /\ chain' = [chain EXCEPT ![c].pc = "read"]
  /\ UNCHANGED envvars
  /\ UNCHANGED <<running_jobs, job_processes, stop_flags, paused_jobs, proc,
                 calls, hist>>

\* lines 97-110: one line of output: break if stop was requested, else log it
\* and store the progress parsed from it, if any
execute_readline(c, kind) ==
  /\ chain[c].pc = "read"
  /\ proc[c] # "none"
  /\ LET j == chain[c].job
     IN IF stop_requested(j)
          THEN /\ chain' = [chain EXCEPT ![c].pc = "stopcheck"]
               /\ UNCHANGED jobs
          ELSE /\ jobs' = IF parse_progress(KindOf(j), kind) # NoProgress
                            THEN update_progress(jobs, j, parse_progress(KindOf(j), kind))
                            ELSE jobs
               /\ UNCHANGED chain
  /\ UNCHANGED envvars
  /\ UNCHANGED <<running_jobs, job_processes, stop_flags, paused_jobs, proc,
                 calls, hist>>

\* line 97: readline returns '' once the process has exited
execute_eof(c) ==
  /\ chain[c].pc = "read"
  /\ ProcExited(c)
  /\ chain' = [chain EXCEPT ![c].pc = "stopcheck"]
  /\ UNCHANGED envvars
  /\ UNCHANGED <<jobs, running_jobs, job_processes, stop_flags, paused_jobs, proc,
                 calls, hist>>

\* lines 112-120: stopped by the user: status stopped, return
execute_stopcheck(c) ==
  /\ chain[c].pc = "stopcheck"
  /\ LET j == chain[c].job
     IN IF stop_requested(j)
          THEN /\ jobs' = update_progress(jobs, j,
                                          Progress("stopped", Absent, Absent, Absent, FALSE))
               /\ chain' = [chain EXCEPT ![c].pc = "finally"]
          ELSE /\ chain' = [chain EXCEPT ![c].pc = "wait"]
               /\ UNCHANGED jobs
  /\ UNCHANGED envvars
  /\ UNCHANGED <<running_jobs, job_processes, stop_flags, paused_jobs, proc,
                 calls, hist>>

\* lines 137-152: the progress stored for a return code
completion_progress_no_percent(code) ==
  IF code = "exit0"
    THEN Progress("completed", Absent, Absent, Absent, FALSE)
    ELSE Progress("failed", Absent, Absent, Absent, TRUE)

completion_progress(code) ==
  IF code = "exit0"
    THEN Progress("completed", 100, Absent, Absent, FALSE)
    ELSE Progress("failed", Absent, Absent, Absent, TRUE)

\* lines 122-152: returncode = process.wait(); 0 -> completed, percent 100;
\* otherwise failed with error_message and return_code
execute_wait(c) ==
  /\ chain[c].pc = "wait"
  /\ ProcExited(c)
  /\ LET j == chain[c].job
     IN /\ jobs' = update_progress(jobs, j, completion_progress(proc[c]))
        /\ chain' = [chain EXCEPT ![c].pc = IF proc[c] = "exit0" THEN "finally" ELSE "failure"]
  /\ UNCHANGED envvars
  /\ UNCHANGED <<running_jobs, job_processes, stop_flags, paused_jobs, proc, calls, hist>>

\* _handle_job_failure, line 223: retry_count and max_retries of job_data
should_retry_inclusive(data) == data.retry_count <= data.max_retries

should_retry(data) == data.retry_count < data.max_retries

\* _handle_job_failure, lines 220-250: on budget increment the stored count,
\* compute the backoff from job_data's retry_count and start the retry thread;
\* else log "Max retries exceeded, giving up"
handle_job_failure(c) ==
  /\ chain[c].pc = "failure"
  /\ LET j == chain[c].job
     IN IF should_retry(chain[c])
          THEN /\ jobs' = increment_retry_count(jobs, j)
               /\ chain' = [chain EXCEPT ![c].pc = "finally",
                                         ![c].backoff = Backoff(chain[c].retry_count, KindOf(j))]
               /\ UNCHANGED hist
          ELSE /\ chain' = [chain EXCEPT ![c].pc = "finally"]
               /\ hist' = [hist EXCEPT ![j].gave_up = TRUE]
               /\ UNCHANGED jobs
  /\ UNCHANGED envvars
  /\ UNCHANGED <<running_jobs, job_processes, stop_flags, paused_jobs, proc, calls>>

\* caller k is inside a control call that goes on without blocking once the
\* worker thread of chain c has ended (timing assumption on time.sleep)
InNonBlockingCall(k, c) ==
  /\ calls[k].op # "idle"
  /\ calls[k].pc = "join" =>
        (calls[k].thread = c \/ ~ ThreadAlive(calls[k].thread))

\* lines 166-191, finally: SIGTERM a process that is still running (a suspended
\* one does not react and wait(timeout=5) gives up), then delete the job's
\* entries from every map under _state_lock; the thread ends
execute_finally(c) ==
  /\ chain[c].pc = "finally"
  /\ LET j == chain[c].job
     IN /\ proc' = [proc EXCEPT ![c] = IF @ = "stopped" THEN @ ELSE "none"]
        /\ job_processes' = [job_processes EXCEPT ![j] = None]
        /\ running_jobs' = [running_jobs EXCEPT ![j] = None]
        /\ stop_flags' = [stop_flags EXCEPT ![j] = "absent"]
        /\ paused_jobs' = [paused_jobs EXCEPT ![j] = "absent"]
        /\ chain' = [chain EXCEPT ![c] =
                       IF chain[c].backoff > 0
                         THEN [@ EXCEPT !.pc = "sleep"]
                         ELSE [NoChain EXCEPT !.pc = "done", !.job = j]]
        /\ calls' = [k \in Callers |->
                       IF chain[c].backoff > 0 /\ InNonBlockingCall(k, c)
                         THEN [calls[k] EXCEPT !.slept = @ \cup {c}]
                         ELSE calls[k]]
  /\ UNCHANGED envvars
  /\ UNCHANGED <<jobs, hist>>

\* ----------------------------------------- _handle_job_failure.retry_job
\* lines 234-245: after the sleep, unless job_id is in running_jobs, re-read
\* the job; if it is still there the retry goes on with the fresh job_data and
\* retry_attempt = retry_count + 1 of the failed attempt
retry_job_wake(c) ==
  /\ chain[c].pc = "sleep"
  /\ \A k \in Callers : c \notin calls[k].slept
  /\ LET j == chain[c].job
     IN IF running_jobs[j] = None /\ HasJob(j)
          THEN chain' = [chain EXCEPT ![c] =
                           [job |-> j, pc |-> "retry", attempt |-> chain[c].retry_count + 1,
                            retry_count |-> jobs[j].retry_count,
                            max_retries |-> jobs[j].max_retries, backoff |-> 0]]
          ELSE chain' = [chain EXCEPT ![c] = [NoChain EXCEPT !.pc = "done", !.job = j,
                                                            !.backoff = chain[c].backoff]]
  /\ UNCHANGED envvars
  /\ UNCHANGED <<jobs, running_jobs, job_processes, stop_flags, paused_jobs, proc,
                 calls, hist>>

\* lines 239-242: the progress a retry stores
retry_progress_in_status(attempt) == Progress("retrying", Absent, Absent, Absent, FALSE)

retry_progress(attempt) == Progress("running", Absent, attempt, Absent, FALSE)

\* lines 239-243: status running with retry_attempt, then _execute_rsync_job
retry_job_run(c) ==
  /\ chain[c].pc = "retry"
  /\ LET j == chain[c].job
     IN /\ jobs' = update_progress(jobs, j, retry_progress(chain[c].attempt))
        /\ hist' = [hist EXCEPT ![j].retries = @ + 1]
  /\ chain' = [chain EXCEPT ![c].pc = "start"]
  /\ UNCHANGED envvars
  /\ UNCHANGED <<running_jobs, job_processes, stop_flags, paused_jobs, proc, calls>>

\* ------------------------------------------------------ the external process
\* the wrapped tool exits on its own, with code 0 or with a non-zero code
process_exit(c, code) ==
  /\ proc[c] = "running"
  /\ proc' = [proc EXCEPT ![c] = code]
  /\ UNCHANGED envvars
  /\ UNCHANGED <<jobs, running_jobs, job_processes, stop_flags, paused_jobs, chain,
                 calls, hist>>

\* -------------------------------------------------------------------- Next
Next ==
  \/ \E k \in Callers, j \in JobIds : start_job_lookup(k, j)
  \/ \E k \in Callers : start_job_check(k)
  \/ \E k \in Callers : start_job_spawn(k)
  \/ \E k \in Callers : start_job_register(k)
  \/ \E k \in Callers : restart_failed_jobs_begin(k)
  \/ \E k \in Callers : restart_failed_jobs_return(k)
  \/ \E k \in Callers, j \in JobIds : stop_job_signal(k, j)
  \/ \E k \in Callers : stop_job_finish(k)
  \/ \E j \in JobIds : delete_job(j)
  \/ \E c \in Chains : execute_spawn(c)
  \/ \E c \in Chains : execute_exception(c)
  \/ \E c \in Chains : execute_running(c)
  \/ \E c \in Chains, kind \in LineKinds : execute_readline(c, kind)
  \/ \E c \in Chains : execute_eof(c)
  \/ \E c \in Chains : execute_stopcheck(c)
  \/ \E c \in Chains : execute_wait(c)
  \/ \E c \in Chains : handle_job_failure(c)
  \/ \E c \in Chains : execute_finally(c)
  \/ \E c \in Chains : retry_job_wake(c)
  \/ \E c \in Chains : retry_job_run(c)
  \/ \E c \in Chains, code \in {"exit0", "exitN"} : process_exit(c, code)

Spec == Init /\ [][Next]_vars

\* ================================================ the persistence layer
\* JobStorage (RcloneStorage is the same code on "operations"): the list
\* self._jobs["jobs"] in memory (variable jobs), the primary file, the temp
\* file of atomic_write and the backups, newest first (variable files). A file
\* is a document ("doc", with the list of records), or "partial" while it is
\* being written, "corrupt" when json.load cannot parse it, "nondict" when it
\* parses to something that is not a dict, "missing" when it does not exist.
\* A thread inside a call holds the RLock.
Threads == 1..MaxThreads

\* storage_utils.generate_unique_id: uuid4, drawn here from a small pool
IdPool == {"u1", "u2", "u3"}

\* _save_jobs: backup_file(self.jobs_file, keep_count=5)
KeepCount == 5

ThreadIdle == [op |-> "idle", pc |-> "-", id |-> "-", snapshot |-> <<>>]

Doc(list) == File("doc", list)

Partial == File("partial", <<>>)

Corrupt == File("corrupt", <<>>)

NonDict == File("nondict", <<>>)

Missing == File("missing", <<>>)

\* json.load fails on the file with JSONDecodeError
Unparsable(f) == f.kind \in {"corrupt", "partial"}

\* the list, as searched by get_job / update_job / delete_job
has_id(list, id) == \E i \in DOMAIN list : list[i].id = id

first_index(list, id) ==
  CHOOSE i \in DOMAIN list : list[i].id = id /\ \A k \in 1..(i - 1) : list[k].id # id

\* get_job: a copy of the first record with the id (None if not has_id)
get_job(list, id) == list[first_index(list, id)]

\* create_job lines 100-101: job_id in existing_ids
id_collides_never(list, id) == FALSE

id_collides(list, id) == id \in {list[i].id : i \in DOMAIN list}

\* create_job lines 106-113: the caller's dict with id, status, retry_count
\* and max_retries set, appended to the list
\* create_job line 108: datetime.now().isoformat(), a string
Timestamp_datetime == "datetime"

Timestamp == "isoformat"

list_create(list, id, name) ==
  Append(list, [id |-> id, name |-> name, status |-> "created",
                created_at |-> Timestamp,
                retry_count |-> 0, max_retries |-> 5])

\* json.dump(data, f, indent=indent, default=str) (storage_utils.py:52) and
\* json.load: strings and numbers come back as they are, a value json cannot
\* serialise is written as str(value) and comes back as that string
TimeFields == {"created_at"}

default_str(v) == IF v = "datetime" THEN "str(datetime)" ELSE v

json_dump(list) ==
  [i \in DOMAIN list |->
     [f \in DOMAIN list[i] |->
        IF f \in TimeFields THEN default_str(list[i][f]) ELSE list[i][f]]]

\* update_job lines 138-143: dict.update on the first record with the id
list_update(list, id, updates) ==
  [list EXCEPT ![first_index(list, id)] = dict_update(@, updates)]

\* delete_job lines 170-173: every record with the id is filtered out
list_delete(list, id) == SelectSeq(list, LAMBDA r : r.id # id)

\* the history of the store: what its calls returned, in the order of their
\* return, and the document of the last write that replaced the primary file
\* (committed), how the last construction of a store ended (load) and the
\* files it found (found), the number of calls begun, and the ids of the
\* records deleted so far (retired)
NoReturns ==
  [results |-> <<>>, committed |-> <<>>, load |-> "none", found |-> NoFiles, begun |-> 0,
   retired |-> {}]

CanCall(t) == ops[t].op = "idle" /\ lock = None /\ returned.begun < MaxCalls

Result(t, op, value) == [thread |-> t, op |-> op, value |-> value]

\* the call returns or raises without a write: the lock is released
ReturnNow(t, op, value) ==
  /\ returned' = [returned EXCEPT !.results = Append(@, Result(t, op, value)),
                                  !.begun = @ + 1]
  /\ UNCHANGED <<jobs, files, lock, ops>>

\* the call has changed the list under the lock and goes on to _save_jobs
Mutate(t, op, id, list) ==
  /\ jobs' = list
  /\ lock' = t
  /\ ops' = [ops EXCEPT ![t] = [op |-> op, pc |-> "backup", id |-> id, snapshot |-> jobs]]
  /\ returned' = [returned EXCEPT !.begun = @ + 1,
                                  !.retired = IF op = "delete" THEN @ \cup {id} ELSE @]
  /\ UNCHANGED files

\* create_job lines 94-116
store_create_job(t, id) ==
  /\ CanCall(t)
  /\ IF id_collides(jobs, id)
       THEN ReturnNow(t, "create", "StorageError")
       ELSE Mutate(t, "create", id, list_create(jobs, id, t))
  /\ UNCHANGED <<execvars, os_name, heap, views>>

\* update_job lines 134-150: a warning and a plain return if the id is absent
store_update_job(t, id, updates) ==
  /\ CanCall(t)
  /\ IF ~ has_id(jobs, id)
       THEN ReturnNow(t, "update", "ok")
       ELSE Mutate(t, "update", id, list_update(jobs, id, updates))
  /\ UNCHANGED <<execvars, os_name, heap, views>>

\* delete_job lines 165-182
store_delete_job(t, id) ==
  /\ CanCall(t)
  /\ IF ~ has_id(jobs, id)
       THEN ReturnNow(t, "delete", "ok")
       ELSE Mutate(t, "delete", id, list_delete(jobs, id))
  /\ UNCHANGED <<execvars, os_name, heap, views>>

\* increment_retry_count lines 194-198: get_job, then update_job
store_increment_retry_count(t, id) ==
  /\ CanCall(t)
  /\ IF ~ has_id(jobs, id)
       THEN ReturnNow(t, "increment", "ok")
       ELSE Mutate(t, "increment", id,
                   list_update(jobs, id, [retry_count |-> get_job(jobs, id).retry_count + 1]))
  /\ UNCHANGED <<execvars, os_name, heap, views>>

\* backup_file lines 126-136: shutil.copy2 of the primary file to a new backup
\* begins; or it fails, which backup_file only prints
save_backup_begin(t, fails) ==
  /\ ops[t].pc = "backup"
  /\ files' = IF fails THEN files ELSE [files EXCEPT !.backups = <<Partial>> \o @]
  /\ ops' = [ops EXCEPT ![t].pc = IF fails THEN "tmp" ELSE "copying"]
  /\ UNCHANGED <<jobs, lock, returned>>
  /\ UNCHANGED <<execvars, os_name, heap, views>>

\* cleanup_old_backups: only the keep_count newest backups are kept
keep_newest(backups) ==
  IF Len(backups) > KeepCount THEN SubSeq(backups, 1, KeepCount) ELSE backups

\* backup_file lines 136-141: the copy is complete, old backups are removed
save_backup_end(t) ==
  /\ ops[t].pc = "copying"
  /\ files' = [files EXCEPT !.backups = keep_newest(<<files.primary>> \o Tail(@))]
  /\ ops' = [ops EXCEPT ![t].pc = "tmp"]
  /\ UNCHANGED <<jobs, lock, returned>>
  /\ UNCHANGED <<execvars, os_name, heap, views>>

\* atomic_write line 47: the file the document is written to
temp_file_is_target == "primary"

temp_file == "tmp"

\* atomic_write lines 51-52: open(temp_file, 'w') truncates the file
save_open(t) ==
  /\ ops[t].pc = "tmp"
  /\ files' = [files EXCEPT ![temp_file] = Partial]
  /\ ops' = [ops EXCEPT ![t].pc = "dump"]
  /\ UNCHANGED <<jobs, lock, returned>>
  /\ UNCHANGED <<execvars, os_name, heap, views>>

\* atomic_write line 52: json.dump has written the whole document
save_dump(t) ==
  /\ ops[t].pc = "dump"
  /\ files' = [files EXCEPT ![temp_file] = Doc(json_dump(jobs))]
  /\ ops' = [ops EXCEPT ![t].pc = "replace"]
  /\ UNCHANGED <<jobs, lock, returned>>
  /\ UNCHANGED <<execvars, os_name, heap, views>>

\* what the call returns after the save
value_of(t) == IF ops[t].op = "create" THEN ops[t].id ELSE "ok"

\* atomic_write line 57: os.replace(temp_file, filepath); the call returns
save_replace(t) ==
  /\ ops[t].pc = "replace"
  /\ files' = [[files EXCEPT !.primary = files[temp_file]] EXCEPT !.tmp = NoFile]
  /\ returned' = [returned EXCEPT
                    !.results = Append(@, Result(t, ops[t].op, value_of(t))),
                    !.committed = files[temp_file].data]
  /\ lock' = None
  /\ ops' = [ops EXCEPT ![t] = ThreadIdle]
  /\ UNCHANGED jobs
  /\ UNCHANGED <<execvars, os_name, heap, views>>

\* the list in memory after a write that failed: none of create_job,
\* update_job and delete_job undoes its change of self._jobs
after_failed_write(t) == jobs

\* atomic_write lines 59-63 and _save_jobs lines 57-58: the write fails, the
\* temp file is removed, StorageIOError is raised; create_job line 121,
\* update_job line 153, delete_job line 185 raise StorageError from it
raised_by_failed_write == "StorageError"

save_fail(t) ==
  /\ ops[t].pc \in {"tmp", "dump", "replace"}
  /\ files' = [files EXCEPT !.tmp = NoFile]
  /\ jobs' = after_failed_write(t)
  /\ returned' = [returned EXCEPT !.results =
                    Append(@, Result(t, ops[t].op, raised_by_failed_write))]
  /\ lock' = None
  /\ ops' = [ops EXCEPT ![t] = ThreadIdle]
  /\ UNCHANGED <<execvars, os_name, heap, views>>

\* ---------------------------------------------------------------- loading
\* find_latest_backup: the newest backup by mtime, or None
find_latest_backup(fs) == IF fs.backups = <<>> THEN NoFile ELSE Head(fs.backups)

Loaded(data) == [outcome |-> "ok", data |-> data]

Raised(error) == [outcome |-> error, data |-> <<>>]

\* safe_json_load lines 80-112
safe_json_load(fs) ==
  CASE fs.primary.kind = "missing" -> Loaded(<<>>)
    [] fs.primary.kind = "nondict" -> Raised("StorageIOError")
    [] Unparsable(fs.primary) ->
         IF find_latest_backup(fs) # NoFile /\ ~ Unparsable(find_latest_backup(fs))
           THEN Loaded(find_latest_backup(fs).data)
           ELSE Raised("StorageCorruptionError")
    [] OTHER -> Loaded(fs.primary.data)

\* recover_from_backup lines 208-224: the newest backup is copied over the
\* primary file (which is moved aside); False if there is no backup
recover_from_backup(fs) ==
  IF find_latest_backup(fs) = NoFile
    THEN fs
    ELSE [fs EXCEPT !.primary = find_latest_backup(fs)]

\* JobStorage._load_jobs lines 34-46: what the constructor gets, and the files
\* afterwards
load_jobs(fs) ==
  IF safe_json_load(fs).outcome = "ok"
    THEN [files |-> fs, result |-> safe_json_load(fs)]
    ELSE IF find_latest_backup(fs) # NoFile
           THEN [files |-> recover_from_backup(fs),
                 result |-> safe_json_load(recover_from_backup(fs))]
           ELSE [files |-> fs, result |-> Loaded(<<>>)]

\* self._jobs of the new instance (none if an error leaves the constructor)
loaded_jobs(fs) == load_jobs(fs).result.data

\* the process dies at any point and is started again: the new JobStorage
\* loads what the files hold; the threads and the list in memory are gone
crash_restart ==
  /\ \E t \in Threads : ops[t].op # "idle"
  /\ jobs' = loaded_jobs(files)
  /\ files' = load_jobs(files).files
  /\ lock' = None
  /\ ops' = [t \in Threads |-> ThreadIdle]
  /\ returned' = [returned EXCEPT !.load = load_jobs(files).result.outcome]
  /\ UNCHANGED <<execvars, os_name, heap, views>>

\* ---------------------------------------------------- store specifications
\* JobStorage.__init__ lines 27-32 on a directory without the file: the file
\* is created with an empty list and loaded
InitStore ==
  /\ jobs = <<>>
  /\ files = [primary |-> Doc(<<>>), tmp |-> NoFile, backups |-> <<>>]
  /\ lock = None
  /\ ops = [t \in Threads |-> ThreadIdle]
  /\ returned = [NoReturns EXCEPT !.load = "ok"]
  /\ heap = <<>>
  /\ views = <<>>
  /\ os_name = "posix"
  /\ EmptyRegistry

\* update_job(job_id, updates): any dict of fields, the id field included
UpdatesGiven == {[status |-> "running"], [id |-> "u2"]}

\* every call of the store from any thread, writes that fail, and crashes
NextStore ==
  \/ \E t \in Threads, id \in IdPool : store_create_job(t, id)
  \/ \E t \in Threads, id \in IdPool, u \in UpdatesGiven : store_update_job(t, id, u)
  \/ \E t \in Threads, id \in IdPool : store_delete_job(t, id)
  \/ \E t \in Threads, id \in IdPool : store_increment_retry_count(t, id)
  \/ \E t \in Threads, fails \in BOOLEAN : save_backup_begin(t, fails)
  \/ \E t \in Threads : save_backup_end(t)
  \/ \E t \in Threads : save_open(t)
  \/ \E t \in Threads : save_dump(t)
  \/ \E t \in Threads : save_replace(t)
  \/ \E t \in Threads : save_fail(t)
  \/ crash_restart

SpecStore == InitStore /\ [][NextStore]_vars

\* concurrent creation: threads that call create_job, every write succeeds
NextCreate ==
  \/ \E t \in Threads, id \in IdPool : store_create_job(t, id)
  \/ \E t \in Threads, fails \in BOOLEAN : save_backup_begin(t, fails)
  \/ \E t \in Threads : save_backup_end(t)
  \/ \E t \in Threads : save_open(t)
  \/ \E t \in Threads : save_dump(t)
  \/ \E t \in Threads : save_replace(t)

SpecCreate == InitStore /\ [][NextCreate]_vars

\* loading: a store is constructed on files in any condition
FileContents == {Doc(<<>>), Doc(list_create(<<>>, "u1", 1))}

RECURSIVE SeqsUpTo(_, _)
SeqsUpTo(S, n) ==
  IF n = 0 THEN {<<>>}
  ELSE SeqsUpTo(S, n - 1) \cup {<<x>> \o q : x \in S, q \in {r \in SeqsUpTo(S, n - 1) : Len(r) = n - 1}}

InitLoad ==
  /\ jobs = <<>>
  /\ \E p \in FileContents \cup {Corrupt, NonDict, Missing},
        b \in SeqsUpTo(FileContents \cup {Corrupt}, MaxBackups) :
       files = [primary |-> p, tmp |-> NoFile, backups |-> b]
  /\ lock = None
  /\ ops = [t \in Threads |-> ThreadIdle]
  /\ returned = NoReturns
  /\ heap = <<>>
  /\ views = <<>>
  /\ os_name = "posix"
  /\ EmptyRegistry

\* JobStorage.__init__ lines 27-32: a missing file is created with an empty
\* list, then self._jobs = self._load_jobs()
construct ==
  /\ returned.load = "none"
  /\ LET fs == IF files.primary = Missing THEN [files EXCEPT !.primary = Doc(<<>>)] ELSE files
     IN /\ jobs' = loaded_jobs(fs)
        /\ files' = load_jobs(fs).files
        /\ returned' = [returned EXCEPT !.load = load_jobs(fs).result.outcome,
                                        !.found = files]
  /\ UNCHANGED <<lock, ops, heap, views, os_name, execvars>>

SpecLoad == InitLoad /\ [][construct]_vars

\* ------------------------------------------------------------------ reads
\* What get_job, get_all_jobs and get_all_operations hand to their callers.
\* Python dicts are objects: heap is the sequence of the dict objects
\* allocated so far, an address is an index into it, jobs is the store's list
\* of addresses, and a record's "progress" is the address of a nested dict
\* (0: the record has no progress key). views are the results callers hold.
JobObj(id, status, progress) ==
  [id |-> id, status |-> status, progress |-> progress, percent |-> 0]

ProgressObj(percent) ==
  [id |-> "-", status |-> "-", progress |-> 0, percent |-> percent]

\* the value of the record at address a, as json.dump or a reader sees it
Deep(h, a) ==
  [id |-> h[a].id, status |-> h[a].status,
   has_progress |-> h[a].progress # 0,
   percent |-> IF h[a].progress = 0 THEN 0 ELSE h[h[a].progress].percent]

DeepList(h, refs) == [i \in DOMAIN refs |-> Deep(h, refs[i])]

\* what the store returns and persists
StoreValue == DeepList(heap, jobs)

address_of(id) == jobs[CHOOSE i \in DOMAIN jobs : heap[jobs[i]].id = id]

CanRead == Len(views) < MaxReads

View(op, refs) == [op |-> op, refs |-> refs]

\* get_job line 70 (get_operation line 108): job.copy(), a new dict with the
\* same values, the nested progress dict being the same object
reads_get_job(id) ==
  /\ CanRead
  /\ \E i \in DOMAIN jobs : heap[jobs[i]].id = id
  /\ heap' = Append(heap, heap[address_of(id)])
  /\ views' = Append(views, View("get", <<Len(heap) + 1>>))
  /\ UNCHANGED <<jobs, files, lock, ops, returned, os_name, execvars>>

\* JobStorage.get_all_jobs line 63: list.copy(), a new list of the same dicts
reads_get_all_jobs ==
  /\ CanRead
  /\ views' = Append(views, View("list", jobs))
  /\ UNCHANGED <<heap, jobs, files, lock, ops, returned, os_name, execvars>>

\* RcloneStorage.get_all_operations line 101: [op.copy() for op in ops_list]
reads_get_all_operations ==
  /\ CanRead
  /\ heap' = heap \o [i \in DOMAIN jobs |-> heap[jobs[i]]]
  /\ views' = Append(views, View("list_copies", [i \in DOMAIN jobs |-> Len(heap) + i]))
  /\ UNCHANGED <<jobs, files, lock, ops, returned, os_name, execvars>>

\* the caller assigns a top-level field of a record it was given
caller_set_field(v, i, status) ==
  /\ v \in DOMAIN views /\ i \in DOMAIN views[v].refs
  /\ heap' = [heap EXCEPT ![views[v].refs[i]].status = status]
  /\ UNCHANGED <<views, jobs, files, lock, ops, returned, os_name, execvars>>

\* the caller assigns a field of the nested progress of a record it was given
caller_set_progress(v, i, percent) ==
  /\ v \in DOMAIN views /\ i \in DOMAIN views[v].refs
  /\ heap[views[v].refs[i]].progress # 0
  /\ heap' = [heap EXCEPT ![heap[views[v].refs[i]].progress].percent = percent]
  /\ UNCHANGED <<views, jobs, files, lock, ops, returned, os_name, execvars>>

\* _save_jobs after a change, in one step (its steps are those of SpecStore)
saved(h) ==
  [files EXCEPT !.primary = Doc(DeepList(h, jobs)),
                !.backups = keep_newest(<<files.primary>> \o @)]

\* update_job lines 138-150 with a status: dict.update on the store's dict
reads_update_job(id, status) ==
  /\ returned.begun < MaxCalls
  /\ \E i \in DOMAIN jobs : heap[jobs[i]].id = id
  /\ heap' = [heap EXCEPT ![address_of(id)].status = status]
  /\ files' = saved(heap')
  /\ returned' = [returned EXCEPT !.begun = @ + 1]
  /\ UNCHANGED <<views, jobs, lock, ops, os_name, execvars>>

\* JobExecutor._update_progress lines 46-52: update_job with a new progress
\* dict, which replaces the reference held by the store's dict
reads_update_progress(id, percent) ==
  /\ returned.begun < MaxCalls
  /\ \E i \in DOMAIN jobs : heap[jobs[i]].id = id
  /\ heap' = Append([heap EXCEPT ![address_of(id)].progress = Len(heap) + 1,
                                 ![address_of(id)].status = "running"],
                    ProgressObj(percent))
  /\ files' = saved(heap')
  /\ returned' = [returned EXCEPT !.begun = @ + 1]
  /\ UNCHANGED <<views, jobs, lock, ops, os_name, execvars>>

StatusGiven == {"running", "failed"}

PercentGiven == {0, 50}

\* a store with a job that has run (it has a progress) and one just created
InitReads ==
  /\ heap = <<JobObj("u1", "running", 2), ProgressObj(0), JobObj("u2", "created", 0)>>
  /\ jobs = <<1, 3>>
  /\ views = <<>>
  /\ files = [primary |-> Doc(DeepList(heap, jobs)), tmp |-> NoFile, backups |-> <<>>]
  /\ lock = None
  /\ ops = [t \in Threads |-> ThreadIdle]
  /\ returned = [NoReturns EXCEPT !.load = "ok"]
  /\ os_name = "posix"
  /\ EmptyRegistry

CallerMutates ==
  \/ \E v \in 1..MaxReads, i \in 1..2, st \in StatusGiven : caller_set_field(v, i, st)
  \/ \E v \in 1..MaxReads, i \in 1..2, pc \in PercentGiven : caller_set_progress(v, i, pc)

StoreUpdates ==
  \/ \E id \in {"u1", "u2"}, st \in StatusGiven : reads_update_job(id, st)
  \/ \E id \in {"u1", "u2"}, pc \in PercentGiven : reads_update_progress(id, pc)

NextReads ==
  \/ \E id \in {"u1", "u2"} : reads_get_job(id)
  \/ reads_get_all_jobs
  \/ reads_get_all_operations
  \/ \E v \in 1..MaxReads, i \in 1..2, st \in StatusGiven : caller_set_field(v, i, st)
  \/ \E v \in 1..MaxReads, i \in 1..2, pc \in PercentGiven : caller_set_progress(v, i, pc)
  \/ \E id \in {"u1", "u2"}, st \in StatusGiven : reads_update_job(id, st)
  \/ \E id \in {"u1", "u2"}, pc \in PercentGiven : reads_update_progress(id, pc)

SpecReads == InitReads /\ [][NextReads]_vars

\* ------------------------------------------------- end-to-end specification
\* The scenario of the end-to-end tests: a job is started once from the HTTP
\* layer and left alone (no stop, no delete, no second start), the process is
\* spawned at every attempt, and the start_job call has returned (line 284)
\* by the time the first attempt reaches its finally block.
start_once(k, j) ==
  /\ UsedChains = {}
  /\ \A k2 \in Callers : calls[k2].op = "idle"
  /\ start_job_lookup(k, j)

finally_once(c) ==
  /\ \A k \in Callers : calls[k].pc # "register"
  /\ execute_finally(c)

NextOnce ==
  \/ \E k \in Callers, j \in JobIds : start_once(k, j)
  \/ \E k \in Callers : start_job_check(k)
  \/ \E k \in Callers : start_job_spawn(k)
  \/ \E k \in Callers : start_job_register(k)
  \/ \E c \in Chains : execute_spawn(c)
  \/ \E c \in Chains : execute_running(c)
  \/ \E c \in Chains, kind \in LineKinds : execute_readline(c, kind)
  \/ \E c \in Chains : execute_eof(c)
  \/ \E c \in Chains : execute_stopcheck(c)
  \/ \E c \in Chains : execute_wait(c)
  \/ \E c \in Chains : handle_job_failure(c)
  \/ \E c \in Chains : finally_once(c)
  \/ \E c \in Chains : retry_job_wake(c)
  \/ \E c \in Chains : retry_job_run(c)
  \/ \E c \in Chains, code \in {"exit0", "exitN"} : process_exit(c, code)

SpecOnce == Init /\ [][NextOnce]_vars

\* --------------------------------------------- pause / resume specification
\* A job started once on either platform, its worker and retries, and callers
\* that pause and resume it (no stop, no delete).
InitPause ==
  /\ \E m \in [JobIds -> 0..MaxRetriesBound] :
       jobs = [j \in JobIds |-> NewJob(JobKind[j], m[j])]
  /\ EmptyRegistry
  /\ os_name \in {"posix", "nt"}
  /\ StoreUntracked

NextPause ==
  \/ \E k \in Callers, j \in JobIds : start_once(k, j)
  \/ \E k \in Callers : start_job_check(k)
  \/ \E k \in Callers : start_job_spawn(k)
  \/ \E k \in Callers : start_job_register(k)
  \/ \E k \in Callers, j \in JobIds : pause_job_check(k, j)
  \/ \E k \in Callers : pause_job_signal(k)
  \/ \E k \in Callers : pause_job_store(k)
  \/ \E k \in Callers, j \in JobIds : resume_job_check(k, j)
  \/ \E k \in Callers : resume_job_signal(k)
  \/ \E k \in Callers : resume_job_store(k)
  \/ \E c \in Chains : execute_spawn(c)
  \/ \E c \in Chains : execute_running(c)
  \/ \E c \in Chains, kind \in LineKinds : execute_readline(c, kind)
  \/ \E c \in Chains : execute_eof(c)
  \/ \E c \in Chains : execute_stopcheck(c)
  \/ \E c \in Chains : execute_wait(c)
  \/ \E c \in Chains : handle_job_failure(c)
  \/ \E c \in Chains : execute_finally(c)
  \/ \E c \in Chains : retry_job_wake(c)
  \/ \E c \in Chains : retry_job_run(c)
  \/ \E c \in Chains, code \in {"exit0", "exitN"} : process_exit(c, code)

SpecPause == InitPause /\ [][NextPause]_vars

\* ------------------------------------------------ control specification
\* A job of either executor started once, its worker (with an exception at
\* the spawn as one outcome) and retries, and callers that stop, pause and
\* resume it and run the reconciler, one control call at a time, in any
\* interleaving with the worker, the retry thread and the process. The record
\* was created more than the grace period ago.
InitControl ==
  /\ \E kind \in {"rsync", "rclone"}, m \in 0..MaxRetriesBound :
       jobs = [j \in JobIds |->
                 dict_update(NewJob(kind, m), [created_at |-> Now - GracePeriod - 1])]
  /\ EmptyRegistry
  /\ os_name = "posix"
  /\ StoreUntracked

\* no control call is running
AllIdle == \A k \in Callers : calls[k].op = "idle"

\* a control call begins while no other is running
control_stop_job(k, j) == AllIdle /\ stop_job_signal(k, j)

control_pause_job(k, j) == AllIdle /\ pause_job_check(k, j)

control_resume_job(k, j) == AllIdle /\ resume_job_check(k, j)

control_cleanup_zombie(k, kind) == AllIdle /\ cleanup_zombie_begin(k, kind)

NextControl ==
  \/ \E k \in Callers, j \in JobIds : start_once(k, j)
  \/ \E k \in Callers : start_job_check(k)
  \/ \E k \in Callers : start_job_spawn(k)
  \/ \E k \in Callers : start_job_register(k)
  \/ \E k \in Callers, j \in JobIds : control_stop_job(k, j)
  \/ \E k \in Callers : stop_job_finish(k)
  \/ \E k \in Callers, j \in JobIds : control_pause_job(k, j)
  \/ \E k \in Callers : pause_job_signal(k)
  \/ \E k \in Callers : pause_job_store(k)
  \/ \E k \in Callers, j \in JobIds : control_resume_job(k, j)
  \/ \E k \in Callers : resume_job_signal(k)
  \/ \E k \in Callers : resume_job_store(k)
  \/ \E k \in Callers, kind \in {"rsync", "rclone"} : control_cleanup_zombie(k, kind)
  \/ \E k \in Callers : cleanup_zombie_status(k)
  \/ \E k \in Callers : cleanup_zombie_tracked(k)
  \/ \E k \in Callers : cleanup_zombie_write(k)
  \/ \E k \in Callers : cleanup_zombie_return(k)
  \/ \E c \in Chains : execute_spawn(c)
  \/ \E c \in Chains : execute_exception(c)
  \/ \E c \in Chains : execute_running(c)
  \/ \E c \in Chains, kind \in LineKinds : execute_readline(c, kind)
  \/ \E c \in Chains : execute_eof(c)
  \/ \E c \in Chains : execute_stopcheck(c)
  \/ \E c \in Chains : execute_wait(c)
  \/ \E c \in Chains : handle_job_failure(c)
  \/ \E c \in Chains : execute_finally(c)
  \/ \E c \in Chains : retry_job_wake(c)
  \/ \E c \in Chains : retry_job_run(c)
  \/ \E c \in Chains, code \in {"exit0", "exitN"} : process_exit(c, code)

SpecControl == InitControl /\ [][NextControl]_vars

\* ------------------------------------------- reconciliation specification
\* The reconciler of either executor on a store of two records in any status,
\* each of them untracked or tracked by a worker thread that has not spawned
\* yet, by a reading worker and its process, or by the process of a retry
\* attempt; the processes are silent while the reconciler runs.
ZombieIds == {"j1", "j2"}

ZombieChain == [j1 |-> 1, j2 |-> 2]

TrackKinds == {"none", "thread", "both", "process"}

StoredStatuses(kind) ==
  IF kind = "rsync"
    THEN {"created", "running", "paused", "completed", "failed", "stopped"}
    ELSE {"created", "running", "scanning", "pending_approval", "preview_failed",
          "initializing", "completed", "failed"}

\* created_at of the records: one second less than, exactly, and one second
\* more than the grace period ago
CreatedAts(kind) ==
  IF kind = "rsync" THEN {0} ELSE {Now - GracePeriod + 1, Now - GracePeriod, Now - GracePeriod - 1}

InitZombie ==
  /\ \E kind \in {"rsync", "rclone"} :
       \E st \in [ZombieIds -> StoredStatuses(kind)], at \in [ZombieIds -> CreatedAts(kind)] :
         jobs = [j \in ZombieIds |->
                   dict_update(NewJob(kind, 0), [status |-> st[j], created_at |-> at[j]])]
  /\ \E tr \in [ZombieIds -> TrackKinds] :
       /\ running_jobs = [j \in ZombieIds |->
                            IF tr[j] \in {"thread", "both"} THEN ZombieChain[j] ELSE None]
       /\ job_processes = [j \in ZombieIds |->
                             IF tr[j] \in {"both", "process"} THEN ZombieChain[j] ELSE None]
       /\ stop_flags = [j \in ZombieIds |->
                          IF tr[j] \in {"thread", "both"} THEN "clear" ELSE "absent"]
       /\ paused_jobs = [j \in ZombieIds |->
                           IF tr[j] \in {"thread", "both"} THEN "no" ELSE "absent"]
       /\ chain = [c \in Chains |->
                     IF \E j \in ZombieIds : ZombieChain[j] = c /\ tr[j] # "none"
                       THEN LET j == CHOOSE i \in ZombieIds : ZombieChain[i] = c
                            IN [NoChain EXCEPT !.job = j,
                                               !.pc = IF tr[j] = "thread" THEN "start" ELSE "read",
                                               !.attempt = IF tr[j] = "process" THEN 1 ELSE 0]
                       ELSE NoChain]
       /\ proc = [c \in Chains |->
                    IF \E j \in ZombieIds : ZombieChain[j] = c /\ tr[j] \in {"both", "process"}
                      THEN "running" ELSE "none"]
  /\ calls = [k \in Callers |-> Idle]
  /\ hist = [j \in ZombieIds |-> NoHist]
  /\ os_name = "posix"
  /\ StoreUntracked

NextZombie ==
  \/ \E k \in Callers, kind \in {"rsync", "rclone"} : cleanup_zombie_begin(k, kind)
  \/ \E k \in Callers : cleanup_zombie_status(k)
  \/ \E k \in Callers : cleanup_zombie_tracked(k)
  \/ \E k \in Callers : cleanup_zombie_write(k)
  \/ \E k \in Callers : cleanup_zombie_return(k)

SpecZombie == InitZombie /\ [][NextZombie]_vars

\* ------------------------------------------ restart_failed_jobs specification
\* restart_failed_jobs on a store of two records in any status and with any
\* retry budget, at most one of them being executed (registered with its worker
\* and process) when the call begins; records are deleted while the call runs;
\* the workers the call starts make no step before it returns.
RestartStatuses == {"created", "failed", "completed"}

TrackedAtInit(j) == \E c \in Chains : chain[c].job = j /\ chain[c].pc = "read"

InitRestart ==
  /\ \E st \in [ZombieIds -> RestartStatuses], rc \in [ZombieIds -> 0..1],
        mr \in [ZombieIds -> 0..1] :
       jobs = [j \in ZombieIds |->
                 dict_update(NewJob("rsync", mr[j]),
                             [status |-> st[j], retry_count |-> rc[j]])]
  /\ \E tr \in SUBSET ZombieIds :
       /\ Cardinality(tr) <= 1
       /\ running_jobs = [j \in ZombieIds |-> IF j \in tr THEN 1 ELSE None]
       /\ job_processes = [j \in ZombieIds |-> IF j \in tr THEN 1 ELSE None]
       /\ stop_flags = [j \in ZombieIds |-> IF j \in tr THEN "clear" ELSE "absent"]
       /\ paused_jobs = [j \in ZombieIds |-> IF j \in tr THEN "no" ELSE "absent"]
       /\ chain = [c \in Chains |->
                     IF c = 1 /\ tr # {}
                       THEN [NoChain EXCEPT !.job = CHOOSE j \in tr : TRUE, !.pc = "read"]
                       ELSE NoChain]
       /\ proc = [c \in Chains |-> IF c = 1 /\ tr # {} THEN "running" ELSE "none"]
  /\ calls = [k \in Callers |-> Idle]
  /\ hist = [j \in ZombieIds |-> NoHist]
  /\ os_name = "posix"
  /\ files = NoFiles /\ lock = None /\ ops = <<>> /\ heap = <<>> /\ views = <<>>
  /\ returned = [op |-> "restart", before |-> jobs]

\* one call of restart_failed_jobs at a time, on workers not yet started
restart_once(k) ==
  /\ \A k2 \in Callers : calls[k2].op = "idle"
  /\ \A c \in Chains : chain[c].pc # "start"
  /\ restart_failed_jobs_begin(k)

\* line 364: self.start_job(job["id"], progress_callback) for the next job
restart_start_job(k) ==
  /\ calls[k].op = "restart_failed"
  /\ \E j \in ZombieIds : start_job_lookup(k, j)

NextRestart ==
  \/ \E k \in Callers : restart_once(k)
  \/ \E k \in Callers : restart_start_job(k)
  \/ \E k \in Callers : start_job_check(k)
  \/ \E k \in Callers : start_job_spawn(k)
  \/ \E k \in Callers : start_job_register(k)
  \/ \E k \in Callers : restart_failed_jobs_return(k)
  \/ \E j \in ZombieIds : delete_job(j)

SpecRestart == InitRestart /\ [][NextRestart]_vars

\* ------------------------------------------------------------ observations
ChainsOf(j) == {c \in Chains : chain[c].job = j}

\* nothing of job j is in flight any more: it was started and every thread
\* of it has ended
Quiescent(j) ==
  /\ \A k \in Callers : calls[k].op = "idle"
  /\ ChainsOf(j) # {}
  /\ \A c \in ChainsOf(j) : chain[c].pc = "done"

\* an entry for j in any map of the live registry
LiveEntry(j) ==
  \/ running_jobs[j] # None
  \/ job_processes[j] # None
  \/ stop_flags[j] # "absent"
  \/ paused_jobs[j] # "absent"

\* =================================================================== claims

\* C1: never two execution attempts of the same job ID at the same time.
C1_OneAttemptPerJob ==
  \A j \in JobIds : Cardinality({c \in ChainsOf(j) : Executing(c)}) <= 1

\* C2: after stop(id) returned true the status is stopped and stays stopped,
\* no retry is pending or fires and no attempt starts, until start(id) is
\* called again.
C2_StopSticks ==
  \A j \in JobIds :
    hist[j].stopped_ok =>
      /\ HasJob(j) => jobs[j].status = "stopped"
      /\ \A c \in ChainsOf(j) : chain[c].pc \notin {"sleep", "retry", "start"}

\* C3: the stored retry_count of a failed record never exceeds its max_retries.
C3_RetryCountWithinBudget ==
  \A j \in DOMAIN jobs :
    jobs[j].status = "failed" => jobs[j].retry_count <= jobs[j].max_retries

\* C4: once the retry budget is exhausted (the failure handler gave up) a
\* failed record is not one that restartFailed() starts.
C4_ExhaustedNotRestarted ==
  \A j \in DOMAIN jobs :
    (hist[j].gave_up /\ jobs[j].status = "failed") => ~ CanRestart(jobs, j)

C6_SuccessPath ==
  /\ \A c \in Chains :
       (chain[c].pc \notin {"unused", "done"} /\ chain[c].attempt = 0
          /\ HasJob(chain[c].job)) =>
         LET job == jobs[chain[c].job]
         IN /\ chain[c].pc \in {"start", "running"} => job.status = "created"
            /\ chain[c].pc \in {"read", "stopcheck", "wait"} => job.status = "running"
            /\ (chain[c].pc = "finally" /\ proc[c] = "exit0") =>
                 /\ job.status = "completed"
                 /\ job.progress.percent = 100
                 /\ job.retry_count = 0
                 /\ chain[c].backoff = 0
                 /\ hist[chain[c].job].retries = 0
  /\ \A j \in DOMAIN jobs :
       jobs[j].status = "completed" =>
         /\ jobs[j].progress.percent = 100
         /\ \A c \in ChainsOf(j) : chain[c].pc \notin {"sleep", "retry"}

C6_Witness ==
  \E c \in Chains :
    /\ chain[c].pc = "finally" /\ proc[c] = "exit0" /\ chain[c].attempt = 0
    /\ HasJob(chain[c].job)
    /\ jobs[chain[c].job].max_retries = 0
    /\ jobs[chain[c].job].status = "completed"

\* C7: the delay of a scheduled retry is min(2^k, cap) for the retry_count k
\* stored in the record when the failure is handled.
C7_BackoffOfStoredCount ==
  [][\A c \in Chains :
       (chain[c].pc = "failure" /\ chain'[c].backoff > 0 /\ HasJob(chain[c].job)) =>
         chain'[c].backoff =
           Backoff(jobs[chain[c].job].retry_count, JobKind[chain[c].job])]_vars

\* C8: the worker launched by a start evaluates its first failure against
\* retry_count 0.
C8_FreshBudget ==
  \A c \in Chains :
    (chain[c].pc = "failure" /\ chain[c].attempt = 0) => chain[c].retry_count = 0

\* C9: start(id) is rejected when the live registry holds an entry for id, and
\* a rejected start changes nothing.
C9_StartRejectedOnLiveEntry ==
  [][\A k \in Callers :
       calls[k].pc = "check" =>
         /\ LiveEntry(calls[k].job) => calls'[k].pc # "spawn"
         /\ calls'[k].pc \notin {"check", "spawn"} =>
              UNCHANGED <<jobs, running_jobs, job_processes, stop_flags,
                          paused_jobs, chain, proc>>]_vars

\* C10: stop(id) without a live entry is rejected and changes nothing, and
\* after a stop(id) that returned true a second stop(id) is rejected.
StopAccepted(j) ==
  \E k \in Callers : calls[k].op = "idle" /\ calls'[k].op = "stop" /\ calls'[k].job = j

C10_StopIdempotent ==
  [][\A j \in JobIds :
       /\ ~ stop_job_tracked(j) => ~ StopAccepted(j)
       /\ hist[j].stopped_ok => ~ StopAccepted(j)]_vars

\* C11: pause(id) then resume(id) on a running job. After the pause took
\* effect and until a resume, the process it suspended is the registered one,
\* is alive and flagged paused, so that the resume is accepted; and when that
\* resume returns true on the still running job, the status is running, the
\* paused flag is false and the registered process is the one that was
\* suspended, with no retry attempt run in between.
OthersQuiet(k, j) ==
  \A k2 \in Callers \ {k} : ~ (calls[k2].op \in {"pause", "resume"} /\ calls[k2].job = j)

C11_PauseResumeSameProcess ==
  [][/\ \A j \in JobIds :
          (hist'[j].paused # None /\ \A k \in Callers : calls'[k].op = "idle") =>
            /\ job_processes'[j] = hist'[j].paused
            /\ paused_jobs'[j] = "yes"
            /\ proc'[hist'[j].paused] = "stopped"
            /\ os_name' # "nt"
     /\ \A k \in Callers :
          LET j == calls[k].job
              p == calls[k].process
          IN (/\ calls[k].op = "resume" /\ calls[k].pc = "store" /\ calls'[k].op = "idle"
              /\ hist[j].paused = p /\ proc[p] = "running" /\ OthersQuiet(k, j)
              /\ HasJob(j)) =>
               /\ jobs'[j].status = "running"
               /\ paused_jobs'[j] = "no"
               /\ job_processes'[j] = p
               /\ proc'[p] = "running"
               /\ hist'[j].retries = hist[j].retries]_vars

C11_Witness ==
  \E j \in DOMAIN jobs :
    /\ hist[j].resumed # None /\ hist[j].resumed = job_processes[j]
    /\ proc[hist[j].resumed] = "running"
    /\ jobs[j].status = "running" /\ paused_jobs[j] = "no"
    /\ \A k \in Callers : calls[k].op = "idle"

\* C12: pause(id) / resume(id) go on only with a process registered for id and
\* the paused flag not yet what the call wants, and succeed only if that
\* process is still alive on a platform with STOP/CONT signals; a call that
\* fails leaves the paused flag, the stored records and the process alone, and
\* nothing else turns the paused flag to true or back to false.
C12_PauseResumeGuards ==
  [][/\ \A k \in Callers :
          LET j == calls'[k].job
          IN /\ (calls[k].op = "idle" /\ calls'[k].op = "pause") =>
                  (job_processes[j] # None /\ paused_jobs[j] # "yes")
             /\ (calls[k].op = "idle" /\ calls'[k].op = "resume") =>
                  (job_processes[j] # None /\ paused_jobs[j] = "yes")
     /\ \A k \in Callers :
          (calls[k].op \in {"pause", "resume"} /\ calls[k].pc = "signal") =>
            /\ calls'[k].pc = "store" =>
                 (proc[calls[k].process] \in {"running", "stopped"} /\ os_name # "nt")
            /\ calls'[k].op = "idle" =>
                 UNCHANGED <<paused_jobs, jobs, proc>>
     /\ \A j \in JobIds :
          /\ (paused_jobs[j] # "yes" /\ paused_jobs'[j] = "yes") =>
               \E k \in Callers : calls[k].op = "pause" /\ calls'[k].pc = "store"
          /\ (paused_jobs[j] = "yes" /\ paused_jobs'[j] = "no") =>
               \E k \in Callers : calls[k].op = "resume" /\ calls'[k].pc = "store"]_vars

\* a pause or resume about to fail: its process has exited, or the platform
\* has no STOP/CONT signals
C12_Witness ==
  \E k \in Callers :
    /\ calls[k].op \in {"pause", "resume"} /\ calls[k].pc = "signal"
    /\ ~ can_signal(calls[k].process)

\* the reconciler of the given store has run, not overlapped by another run of
\* it, and has returned
Reconciled(kind) ==
  /\ returned # <<>> /\ returned.op = "cleanup" /\ returned.kind = kind
  /\ returned.value # None /\ returned.alone
  /\ \A k \in Callers : calls[k].op # "cleanup"

Reclassified(before, j) ==
  /\ jobs[j] = dict_update(before[j], zombie_update)
  /\ jobs[j].status = "failed" /\ jobs[j].error_message # ""

\* C13: when the reconciler of the job store has returned, every record that
\* was running with no entry in the live registry is failed with an error
\* message, every other record is as it was, and the value returned is the
\* number of the records reclassified.
C13_ZombieJobsReclassified ==
  Reconciled("rsync") =>
    LET before == returned.before
        zombies == {j \in DOMAIN before : before[j].status = "running" /\ ~ LiveEntry(j)}
    IN /\ \A j \in zombies : Reclassified(before, j)
       /\ \A j \in DOMAIN before \ zombies : jobs[j] = before[j]
       /\ returned.value = Cardinality(zombies)

C13_Witness ==
  /\ Reconciled("rsync")
  /\ returned.value = 1
  /\ \E j \in DOMAIN jobs :
       /\ returned.before[j].status = "running" /\ LiveEntry(j)
       /\ jobs[j].status = "running"

\* C14: the reconciler of the operation store changes a record only if it was
\* in a transient status, untracked and older than the grace period (and then
\* to failed); a tracked record and an untracked one created no longer than
\* the grace period ago are as they were.
C14_ZombieOperationsGrace ==
  Reconciled("rclone") =>
    LET before == returned.before
    IN \A j \in DOMAIN before :
         /\ jobs[j] # before[j] =>
              /\ before[j].status \in {"running", "scanning", "pending_approval",
                                       "preview_failed", "initializing"}
              /\ ~ LiveEntry(j)
              /\ Now - before[j].created_at > 3600
              /\ Reclassified(before, j)
         /\ (LiveEntry(j) \/ Now - before[j].created_at <= 3600) => jobs[j] = before[j]

C14_Witness ==
  /\ Reconciled("rclone")
  /\ \E i, j \in DOMAIN jobs :
       /\ returned.before[i].status = "scanning" /\ ~ LiveEntry(i)
       /\ Now - returned.before[i].created_at = 3600 /\ jobs[i].status = "scanning"
       /\ returned.before[j].status = "pending_approval" /\ jobs[j].status = "failed"

\* the create_job calls that returned an id, in the order of their return
Created == SelectSeq(returned.results, LAMBDA r : r.op = "create" /\ r.value \in IdPool)

StoreQuiet == \A t \in Threads : ops[t].op = "idle"

\* C15: concurrent create calls: the ids returned are pairwise distinct, each
\* of them is retrievable and is the record of the call that got it, and the
\* store holds exactly one record per create that went through (none lost,
\* none overwritten).
C15_ConcurrentCreates ==
  /\ \A a, b \in DOMAIN Created : a # b => Created[a].value # Created[b].value
  /\ \A a \in DOMAIN Created :
       /\ has_id(jobs, Created[a].value)
       /\ get_job(jobs, Created[a].value).name = Created[a].thread
  /\ Len(jobs) = Len(Created) + Cardinality({t \in Threads : ops[t].op = "create"})
  /\ StoreQuiet => files.primary = Doc(jobs)

C15_Witness ==
  /\ StoreQuiet
  /\ Len(Created) >= 2 /\ Len(jobs) = Len(Created)
  /\ \E a, b \in DOMAIN Created : Created[a].thread # Created[b].thread

\* C16: a crash at any point of a store write: the primary file is at every
\* instant the complete document of the last write that went through, and the
\* store constructed after the crash holds exactly that document.
C16_CrashKeepsCommitted ==
  [][/\ files'.primary = Doc(returned'.committed)
     /\ crash_restart => (jobs' = returned.committed /\ returned'.load = "ok")]_vars

\* after a crash in the middle of the temp file's write
C16_Witness ==
  /\ StoreQuiet /\ files.tmp = Partial
  /\ jobs = returned.committed /\ Len(jobs) >= 1
  /\ files.primary = Doc(jobs)

\* the files found by the constructor, and whether it has run
Constructed == returned.load # "none"

ValidBackups(fs) == {i \in DOMAIN fs.backups : fs.backups[i].kind = "doc"}

\* C17: the primary file is corrupt or unparsable and no backup parses (or
\* there is none): the construction of the store fails with
\* StorageCorruptionError.
C17_LoadFailsLoudly ==
  (/\ Constructed
   /\ returned.found.primary \in {Corrupt, NonDict}
   /\ ValidBackups(returned.found) = {}) =>
     returned.load = "StorageCorruptionError"

\* C18: the primary file is corrupt or unparsable and some backup is valid:
\* the store holds the content of the newest valid backup.
C18_LoadsNewestValidBackup ==
  (/\ Constructed
   /\ returned.found.primary \in {Corrupt, NonDict}
   /\ ValidBackups(returned.found) # {}) =>
     LET fs == returned.found
         newest == CHOOSE i \in ValidBackups(fs) : \A k \in ValidBackups(fs) : i <= k
     IN returned.load = "ok" /\ jobs = fs.backups[newest].data

\* C19: a write that fails raises StorageIOError and leaves in memory the list
\* as it was before the call.
C19_FailedWriteRollsBack ==
  [][\A t \in Threads :
       save_fail(t) =>
         /\ jobs' = ops[t].snapshot
         /\ returned'.results[Len(returned'.results)].value = "StorageIOError"]_vars

\* the value of what a caller holds
ViewValue(h, v) == DeepList(h, views[v].refs)

\* C20: a caller that changes a record it got from get or from a list (a
\* top-level field or a field of the nested progress) does not change what the
\* store returns and persists, and an update of the store does not change the
\* records of a list a caller already holds.
C20_ReadsIsolated ==
  [][/\ CallerMutates => StoreValue' = StoreValue
     /\ StoreUpdates =>
          \A v \in DOMAIN views :
            views[v].op \in {"list", "list_copies"} => ViewValue(heap', v) = ViewValue(heap, v)]_vars

\* the ids of the list, in list order
IdsOf(list) == [i \in DOMAIN list |-> list[i].id]

\* C21: no two records of the store share an id; update_job and
\* increment_retry_count leave the id of every record as it is, whatever the
\* update carries; create_job never assigns the id of a record deleted before.
C21_IdsUniqueImmutable ==
  [][/\ \A a, b \in DOMAIN jobs' : a # b => jobs'[a].id # jobs'[b].id
     /\ \A t \in Threads :
          (ops[t].op = "idle" /\ ops'[t].op \in {"update", "increment"}) =>
            IdsOf(jobs') = IdsOf(jobs)
     /\ \A t \in Threads :
          (ops[t].op = "idle" /\ ops'[t].op = "create") =>
            ops'[t].id \notin returned.retired]_vars

\* the records restart_failed_jobs is to start, and those it has started
Eligible(js) == {j \in DOMAIN js : js[j].status = "failed" /\ js[j].retry_count < js[j].max_retries}

StartedNow == {chain[c].job : c \in {d \in Chains : chain[d].pc = "start"}}

\* C22: when restart_failed_jobs is about to return, the records it started are
\* records that were failed with retry_count < max_retries, every such record
\* was started unless its start was rejected (it was executing, or deleted),
\* and the value returned is the number of records started.
C22_RestartFailedExactly ==
  \A k \in Callers :
    (calls[k].op = "restart_failed" /\ calls[k].pc = "loop" /\ calls[k].todo = <<>>) =>
      /\ StartedNow \subseteq Eligible(returned.before)
      /\ \A j \in Eligible(returned.before) :
           j \in StartedNow \/ TrackedAtInit(j) \/ ~ HasJob(j)
      /\ \A j \in StartedNow : ~ TrackedAtInit(j)
      /\ calls[k].count = Cardinality(StartedNow)

\* both records were failed, one with budget left and one without: one start
C22_Witness ==
  \E k \in Callers :
    /\ calls[k].op = "restart_failed" /\ calls[k].pc = "loop" /\ calls[k].todo = <<>>
    /\ calls[k].count = 1
    /\ \E j \in DOMAIN returned.before \ Eligible(returned.before) :
         returned.before[j].status = "failed" /\ HasJob(j) /\ j \notin StartedNow

\* test_status_strings.py: VALID_JOB_STATUSES, VALID_RCLONE_STATUSES
ValidStatuses(kind) ==
  IF kind = "rsync"
    THEN {"pending", "pending_restart", "running", "paused", "stopped",
          "completed", "failed", "created"}
    ELSE {"pending", "pending_approval", "initializing", "preview_failed",
          "running", "scanning", "paused", "stopped", "completed", "failed", "created"}

\* C23: every status stored in a record, top-level and in progress, is one of
\* the enumerated statuses of its executor, and a retry stores status running
\* (top-level and in progress) with the attempt number in progress.retry_attempt.
C23_StatusEnumerated ==
  [][/\ \A j \in DOMAIN jobs' :
          /\ jobs'[j].status \in ValidStatuses(jobs'[j].kind)
          /\ jobs'[j].progress.status \in ValidStatuses(jobs'[j].kind) \cup {"-"}
     /\ \A c \in Chains :
          (chain[c].pc = "retry" /\ chain'[c].pc = "start" /\ HasJob(chain[c].job)) =>
            LET job == jobs'[chain[c].job]
            IN /\ job.status = "running"
               /\ job.progress.status = "running"
               /\ job.progress.retry_attempt = chain[c].attempt
               /\ chain[c].attempt >= 1]_vars

\* a retry attempt of an rclone operation is reading output, scanning
C23_Witness ==
  \E c \in Chains :
    /\ chain[c].attempt >= 1 /\ chain[c].pc = "read" /\ HasJob(chain[c].job)
    /\ jobs[chain[c].job].status = "scanning"

\* ------------------------------------------------- delete specification
\* one start of a job whose record may be deleted at any moment: while the
\* worker executes, while a retry timer is pending, during a retry attempt,
\* inside a run of the zombie cleanup
NextDelete ==
  \/ \E k \in Callers, j \in JobIds : start_once(k, j)
  \/ \E k \in Callers : start_job_check(k)
  \/ \E k \in Callers : start_job_spawn(k)
  \/ \E k \in Callers : start_job_register(k)
  \/ \E j \in JobIds : delete_job(j)
  \/ \E k \in Callers, kind \in {"rsync", "rclone"} : control_cleanup_zombie(k, kind)
  \/ \E k \in Callers : cleanup_zombie_status(k)
  \/ \E k \in Callers : cleanup_zombie_tracked(k)
  \/ \E k \in Callers : cleanup_zombie_write(k)
  \/ \E k \in Callers : cleanup_zombie_return(k)
  \/ \E c \in Chains : execute_spawn(c)
  \/ \E c \in Chains : execute_exception(c)
  \/ \E c \in Chains : execute_running(c)
  \/ \E c \in Chains, kind \in LineKinds : execute_readline(c, kind)
  \/ \E c \in Chains : execute_eof(c)
  \/ \E c \in Chains : execute_stopcheck(c)
  \/ \E c \in Chains : execute_wait(c)
  \/ \E c \in Chains : handle_job_failure(c)
  \/ \E c \in Chains : finally_once(c)
  \/ \E c \in Chains : retry_job_wake(c)
  \/ \E c \in Chains : retry_job_run(c)
  \/ \E c \in Chains, code \in {"exit0", "exitN"} : process_exit(c, code)

SpecDelete == Init /\ [][NextDelete]_vars

\* --------------------------------------------------- locks specification
\* The two locks of the program: JobExecutor._state_lock (threading.Lock, not
\* reentrant) and JobStorage._lock (threading.RLock).  Every operation of the
\* executor is followed as the sequence of its lock events and blocking calls,
\* in the order of the source; in this specification the variable lock holds
\* both locks and ops the position of each thread in its operation.

\* one store call: `with self._lock` in JobStorage
StoreCall == <<"acquire_store", "release_store">>

\* increment_retry_count (job_storage.py:187-199): get_job and update_job
\* inside `with self._lock`, the RLock taken again by each
IncrementCall ==
  <<"acquire_store", "acquire_store", "release_store",
    "acquire_store", "release_store", "release_store">>

\* stop_job, lines 288-342: the locked section, killpg and process.wait,
\* thread.join(timeout=5), the store update
stop_job_script_join_locked ==
  <<"acquire_state", "block", "block", "release_state">> \o StoreCall

stop_job_script ==
  <<"acquire_state", "release_state", "block", "block">> \o StoreCall

LockScripts ==
  [start_job |-> StoreCall \o <<"acquire_state", "release_state">> \o StoreCall
                   \o <<"acquire_state", "release_state">>,
   stop_job |-> stop_job_script,
   pause_job |-> <<"acquire_state", "release_state", "block",
                   "acquire_state", "release_state">> \o StoreCall,
   resume_job |-> <<"acquire_state", "release_state", "block",
                    "acquire_state", "release_state">> \o StoreCall,
   cleanup_zombie_jobs |-> StoreCall \o <<"acquire_state", "release_state">> \o StoreCall,
   is_job_running |-> <<"acquire_state", "release_state">>,
   execute_rsync_job |-> <<"block", "acquire_state", "release_state">> \o StoreCall
                           \o <<"block">> \o StoreCall \o <<"block">> \o StoreCall
                           \o IncrementCall
                           \o <<"block", "acquire_state", "release_state">>,
   retry_job |-> <<"block">> \o StoreCall \o StoreCall]

NoLocks == [state |-> None, storage |-> None, depth |-> 0]

LockIdle == [op |-> "idle", pc |-> 0]

InitLocks ==
  /\ jobs = [j \in JobIds |-> NewJob(JobKind[j], 0)]
  /\ EmptyRegistry
  /\ os_name = "posix"
  /\ files = NoFiles
  /\ lock = NoLocks
  /\ ops = [t \in Threads |-> LockIdle]
  /\ returned = <<>>
  /\ heap = <<>>
  /\ views = <<>>

\* the next event of thread t, "end" after the last one
NextEvent(t) ==
  IF ops[t].op = "idle" THEN "idle"
  ELSE IF ops[t].pc > Len(LockScripts[ops[t].op]) THEN "end"
  ELSE LockScripts[ops[t].op][ops[t].pc]

\* whether thread t gets further: a threading.Lock is free, an RLock is free
\* or held by the thread itself; the blocking calls of the source wait for a
\* process, for output or for a bounded time, never for a lock
CanStep(t) ==
  CASE NextEvent(t) = "acquire_state" -> lock.state = None
    [] NextEvent(t) = "acquire_store" -> lock.storage \in {None, t}
    [] OTHER -> NextEvent(t) # "idle"

Advance(t) == ops' = [ops EXCEPT ![t].pc = @ + 1]

LocksFrame ==
  UNCHANGED <<jobs, running_jobs, job_processes, stop_flags, paused_jobs,
              chain, proc, calls, hist, os_name, files, returned, heap, views>>

locks_call(t, op) ==
  /\ ops[t].op = "idle"
  /\ ops' = [ops EXCEPT ![t] = [op |-> op, pc |-> 1]]
  /\ UNCHANGED lock
  /\ LocksFrame

acquire_state_lock(t) ==
  /\ NextEvent(t) = "acquire_state" /\ CanStep(t)
  /\ lock' = [lock EXCEPT !.state = t]
  /\ Advance(t)
  /\ LocksFrame

release_state_lock(t) ==
  /\ NextEvent(t) = "release_state"
  /\ lock' = [lock EXCEPT !.state = None]
  /\ Advance(t)
  /\ LocksFrame

acquire_store_lock(t) ==
  /\ NextEvent(t) = "acquire_store" /\ CanStep(t)
  /\ lock' = [lock EXCEPT !.storage = t, !.depth = @ + 1]
  /\ Advance(t)
  /\ LocksFrame

release_store_lock(t) ==
  /\ NextEvent(t) = "release_store"
  /\ lock' = [lock EXCEPT !.depth = @ - 1,
                          !.storage = IF lock.depth = 1 THEN None ELSE @]
  /\ Advance(t)
  /\ LocksFrame

blocking_call(t) ==
  /\ NextEvent(t) = "block"
  /\ Advance(t)
  /\ UNCHANGED lock
  /\ LocksFrame

locks_return(t) ==
  /\ NextEvent(t) = "end"
  /\ ops' = [ops EXCEPT ![t] = LockIdle]
  /\ UNCHANGED lock
  /\ LocksFrame

NextLocks ==
  \/ \E t \in Threads, op \in DOMAIN LockScripts : locks_call(t, op)
  \/ \E t \in Threads : acquire_state_lock(t)
  \/ \E t \in Threads : release_state_lock(t)
  \/ \E t \in Threads : acquire_store_lock(t)
  \/ \E t \in Threads : release_store_lock(t)
  \/ \E t \in Threads : blocking_call(t)
  \/ \E t \in Threads : locks_return(t)

SpecLocks == InitLocks /\ [][NextLocks]_vars

\* ---------------------------------------------------- stop specification
\* stop_job followed statement by statement: the locked section, SIGTERM,
\* process.wait(timeout=10), SIGKILL, thread.join(timeout=5), the store update.
\* returned.events is the record of what the call did, in order.
NoStopReturn == [op |-> "stop", events |-> <<>>, value |-> "-"]

InitStop ==
  /\ \E m \in [JobIds -> 0..MaxRetriesBound] :
       jobs = [j \in JobIds |-> NewJob(JobKind[j], m[j])]
  /\ EmptyRegistry
  /\ os_name = "posix"
  /\ files = NoFiles
  /\ lock = None
  /\ ops = <<>>
  /\ returned = NoStopReturn
  /\ heap = <<>>
  /\ views = <<>>

StopFrame == UNCHANGED <<os_name, files, lock, ops, heap, views>>

StopEvent(e) == returned' = [returned EXCEPT !.events = Append(@, e)]

\* lines 288-300: under _state_lock: not tracked -> False; the stop flag is set
\* if the job has one; the process and thread references are taken
stop_escalation_begin(k, j) ==
  /\ AllIdle
  /\ IF ~ stop_job_tracked(j)
       THEN /\ returned' = [NoStopReturn EXCEPT !.value = "False"]
            /\ UNCHANGED <<calls, stop_flags>>
       ELSE /\ stop_flags' = [stop_flags EXCEPT ![j] = IF @ = "absent" THEN @ ELSE "set"]
            /\ returned' = [NoStopReturn EXCEPT
                              !.events = IF stop_flags[j] = "absent"
                                           THEN <<"no_flag">> ELSE <<"flag_set">>]
            /\ calls' = [calls EXCEPT ![k] =
                           [Idle EXCEPT !.op = "stop", !.pc = "term", !.job = j,
                                        !.thread = running_jobs[j],
                                        !.process = job_processes[j],
                                        !.count = StartsAccepted(j)]]
  /\ StopFrame
  /\ UNCHANGED <<jobs, running_jobs, job_processes, paused_jobs, chain, proc, hist>>

\* lines 303-313: if process and process.poll() is None: SIGTERM to the process
\* group; the process ends at once or goes on for a while (a suspended process
\* does not react)
stop_escalation_sigterm(k) ==
  /\ calls[k].op = "stop" /\ calls[k].pc = "term"
  /\ IF ProcAlive(calls[k].process)
       THEN /\ StopEvent("SIGTERM")
            /\ \E reacts \in BOOLEAN :
                 proc' = IF reacts /\ proc[calls[k].process] = "running"
                           THEN [proc EXCEPT ![calls[k].process] = "exitN"]
                           ELSE proc
            /\ calls' = [calls EXCEPT ![k].pc = "wait"]
       ELSE /\ calls' = [calls EXCEPT ![k].pc = "join"]
            /\ UNCHANGED <<returned, proc>>
  /\ StopFrame
  /\ UNCHANGED <<jobs, running_jobs, job_processes, stop_flags, paused_jobs, chain, hist>>

\* lines 316-320: process.wait(timeout=10) returns, or raises TimeoutExpired
\* with the process still alive
stop_escalation_wait(k) ==
  /\ calls[k].op = "stop" /\ calls[k].pc = "wait"
  /\ IF ProcAlive(calls[k].process)
       THEN /\ StopEvent("alive_after_wait")
            /\ calls' = [calls EXCEPT ![k].pc = "kill"]
       ELSE /\ StopEvent("stopped_gracefully")
            /\ calls' = [calls EXCEPT ![k].pc = "join"]
  /\ StopFrame
  /\ UNCHANGED <<jobs, running_jobs, job_processes, stop_flags, paused_jobs, chain,
                 proc, hist>>

\* lines 321-327: SIGKILL to the process group, process.wait()
stop_escalation_sigkill(k) ==
  /\ calls[k].op = "stop" /\ calls[k].pc = "kill"
  /\ StopEvent("SIGKILL")
  /\ proc' = IF ProcAlive(calls[k].process)
               THEN [proc EXCEPT ![calls[k].process] = "exitN"]
               ELSE proc
  /\ calls' = [calls EXCEPT ![k].pc = "join"]
  /\ StopFrame
  /\ UNCHANGED <<jobs, running_jobs, job_processes, stop_flags, paused_jobs, chain, hist>>

\* lines 333-345: thread.join(timeout=5), a warning if the thread is still
\* alive, status stopped, True
stop_escalation_finish(k) ==
  /\ calls[k].op = "stop" /\ calls[k].pc = "join"
  /\ JoinReturns(calls[k].thread)
  /\ LET j == calls[k].job
     IN /\ jobs' = update_progress(jobs, j, Progress("stopped", Absent, Absent, Absent, FALSE))
        /\ hist' = [hist EXCEPT ![j].stopped_ok =
                                  ~ StartInFlight(j) /\ StartsAccepted(j) = calls[k].count]
  /\ returned' = [returned EXCEPT
                    !.events = Append(@, IF ThreadAlive(calls[k].thread)
                                           THEN "join_timeout" ELSE "joined"),
                    !.value = "True"]
  /\ Return(k, TRUE)
  /\ StopFrame
  /\ UNCHANGED <<running_jobs, job_processes, stop_flags, paused_jobs, chain, proc>>

NextStop ==
  \/ \E k \in Callers, j \in JobIds : start_once(k, j)
  \/ \E k \in Callers : start_job_check(k)
  \/ \E k \in Callers : start_job_spawn(k)
  \/ \E k \in Callers : start_job_register(k)
  \/ \E k \in Callers, j \in JobIds : stop_escalation_begin(k, j)
  \/ \E k \in Callers : stop_escalation_sigterm(k)
  \/ \E k \in Callers : stop_escalation_wait(k)
  \/ \E k \in Callers : stop_escalation_sigkill(k)
  \/ \E k \in Callers : stop_escalation_finish(k)
  \/ \E c \in Chains : execute_spawn(c)
  \/ \E c \in Chains : execute_exception(c)
  \/ \E c \in Chains : execute_running(c)
  \/ \E c \in Chains, kind \in LineKinds : execute_readline(c, kind)
  \/ \E c \in Chains : execute_eof(c)
  \/ \E c \in Chains : execute_stopcheck(c)
  \/ \E c \in Chains : execute_wait(c)
  \/ \E c \in Chains : handle_job_failure(c)
  \/ \E c \in Chains : execute_finally(c)
  \/ \E c \in Chains : retry_job_wake(c)
  \/ \E c \in Chains : retry_job_run(c)
  \/ \E c \in Chains, code \in {"exit0", "exitN"} : process_exit(c, code)

SpecStop == InitStop /\ [][NextStop]_vars

\* an attempt of job j has ended and nothing of j is going on: no worker or
\* retry attempt is executing, no control call is running, and the job has no
\* entry in the live registry
AttemptOver(j) ==
  /\ HasJob(j) /\ AllIdle /\ ~ LiveEntry(j)
  /\ ChainsOf(j) # {}
  /\ \A c \in ChainsOf(j) : chain[c].pc \in {"sleep", "done"}

HasMessage(job) == job.progress.error_message \/ "error_message" \in DOMAIN job

\* C24: once an attempt has ended and the registry entries are removed, the
\* status is completed, failed or stopped (never running or paused), and a
\* failed record carries a message.
C24_AttemptEndsSettled ==
  \A j \in JobIds :
    AttemptOver(j) =>
      /\ jobs[j].status \in {"completed", "failed", "stopped"}
      /\ jobs[j].status = "failed" => HasMessage(jobs[j])

\* the worker of chain c leaves its attempt as failed in this step: by the
\* except block (from "start") or after _handle_job_failure (from "failure")
FailureHandled(c) ==
  /\ chain[c].pc \in {"start", "failure"}
  /\ chain'[c].pc = "finally"

\* C25: after a non-zero exit and after a spawn exception alike, the record is
\* failed and, with retry budget left, retry_count is incremented and a retry
\* is scheduled.
C25_FailureDrivesRetry ==
  [][\A c \in Chains :
       (FailureHandled(c) /\ HasJob(chain[c].job)) =>
         /\ chain[c].pc = "start" => jobs'[chain[c].job].status = "failed"
         /\ should_retry(chain[c]) =>
              /\ chain'[c].backoff > 0
              /\ jobs'[chain[c].job].retry_count = jobs[chain[c].job].retry_count + 1]_vars

\* the worker launched by an explicit start of job j stores running (line 87)
ExplicitStartRuns(j) ==
  \E c \in Chains :
    /\ chain[c].job = j /\ chain[c].attempt = 0
    /\ chain[c].pc = "running" /\ chain'[c].pc = "read"

\* C26: once the status of a record is completed, no step other than the one
\* of an explicit start changes it.
C26_CompletedTerminal ==
  [][\A j \in JobIds :
       (HasJob(j) /\ jobs[j].status = "completed" /\ j \in DOMAIN jobs') =>
         \/ jobs'[j].status = "completed"
         \/ ExplicitStartRuns(j)]_vars

\* the edges of the status state machine
StatusEdges ==
  {<<"created", "running">>,
   <<"running", "completed">>, <<"running", "failed">>, <<"running", "stopped">>,
   <<"running", "paused">>, <<"paused", "running">>,
   <<"failed", "running">>}

\* C27: every change of a record's stored status follows an edge of the state
\* machine.
C27_StatusFollowsEdges ==
  [][\A j \in JobIds :
       (HasJob(j) /\ j \in DOMAIN jobs' /\ jobs'[j].status # jobs[j].status) =>
         <<jobs[j].status, jobs'[j].status>> \in StatusEdges]_vars

\* an attempt of job j has ended and neither a worker, a retry attempt nor a
\* control call is at work
AttemptEnded(j) ==
  /\ AllIdle
  /\ ChainsOf(j) # {}
  /\ \A c \in ChainsOf(j) : chain[c].pc \in {"sleep", "done"}

\* C28: after an attempt has ended the job has no entry left in any map of the
\* live registry, however fast the worker finished relative to start_job.
C28_CleanupLeavesNoEntry ==
  \A j \in JobIds : AttemptEnded(j) => ~ LiveEntry(j)

\* chain c is in its retry phase: the timer is pending, or the retry attempt
\* is being prepared or is executing
InRetryPhase(c) ==
  \/ chain[c].pc \in {"sleep", "retry"}
  \/ chain[c].attempt > 0 /\ Executing(c)

\* C29: during the whole retry phase the job has a worker-handle entry and a
\* cancellation flag in the live registry.
C29_RegisteredWhileRetrying ==
  \A c \in Chains :
    InRetryPhase(c) =>
      /\ running_jobs[chain[c].job] # None
      /\ stop_flags[chain[c].job] # "absent"

\* the timer of chain c fires in this step
TimerFires(c) == chain[c].pc = "sleep" /\ chain'[c].pc \in {"retry", "done"}

\* a manual start of the job of chain c was accepted after chain c was
\* created: it is about to create its worker, or its worker exists
Superseded(c) ==
  \/ \E k \in Callers : calls[k].job = chain[c].job /\ calls[k].pc = "spawn"
  \/ \E d \in Chains : d > c /\ chain[d].job = chain[c].job /\ chain[d].pc # "unused"

\* C30: when the timer fires, the retry goes on with the record as stored at
\* that moment, and it is skipped when a manual start re-registered the job in
\* the interim.
C30_RetryUsesStoredRecord ==
  [][\A c \in Chains :
       TimerFires(c) =>
         /\ chain'[c].pc = "retry" =>
              /\ chain'[c].retry_count = jobs[chain[c].job].retry_count
              /\ chain'[c].max_retries = jobs[chain[c].job].max_retries
         /\ Superseded(c) => chain'[c].pc = "done"]_vars

\* C31: a retry whose record was deleted while the timer was pending is
\* abandoned when the timer fires, without a process, and no step brings a
\* deleted record back into the store.
C31_DeletedRetryAbandoned ==
  [][/\ \A c \in Chains :
          (TimerFires(c) /\ ~ HasJob(chain[c].job)) =>
            /\ chain'[c].pc = "done"
            /\ proc' = proc
     /\ \A j \in JobIds : ~ HasJob(j) => j \notin DOMAIN jobs']_vars

\* the only thread of a job has fired its timer and abandoned the retry, the
\* record being deleted and the job not registered
C31_Witness ==
  \E c \in Chains :
    /\ chain[c].pc = "done" /\ chain[c].backoff > 0
    /\ ~ HasJob(chain[c].job)
    /\ running_jobs[chain[c].job] = None
    /\ \A d \in Chains \ {c} : chain[d].pc = "unused"
    /\ \A k \in Callers : calls[k].op = "idle"

\* the steps of a worker or retry thread that hold _state_lock while they
\* touch the registry maps: job_processes[job_id] = process (lines 83-84) and
\* the deletions of the finally block (lines 181-191); the reads of stop_flags
\* at lines 99 and 113 and of running_jobs at line 235 are outside any
\* `with self._state_lock`
state_lock_held(pc) == pc \in {"start", "finally"}

\* chain c reads or writes a map of the live registry in this step
TouchesRegistry(c) ==
  \/ chain[c].pc = "start" /\ chain'[c].pc = "running"
  \/ chain[c].pc = "read" /\ chain'[c].pc = "stopcheck" /\ stop_requested(chain[c].job)
  \/ chain[c].pc = "stopcheck" /\ chain'[c].pc \in {"finally", "wait"}
  \/ chain[c].pc = "finally" /\ chain'[c].pc \in {"sleep", "done"}
  \/ TimerFires(c)

\* C32: every read and every mutation of the registry maps made by a worker
\* or a retry timer happens while the thread holds _state_lock.
C32_RegistryUnderMutex ==
  [][\A c \in Chains : TouchesRegistry(c) => state_lock_held(chain[c].pc)]_vars

\* C33: _state_lock is never held across a blocking call nor while the store's
\* lock is acquired, the store's lock is never held while _state_lock is
\* acquired, and whenever some thread is inside an operation some thread can
\* go on (no deadlock).
C33_NoLockAcrossBlocking ==
  /\ \A t \in Threads :
       /\ NextEvent(t) \in {"block", "acquire_store"} => lock.state # t
       /\ NextEvent(t) = "acquire_state" => lock.storage # t
  /\ (\E t \in Threads : ops[t].op # "idle") => \E t \in Threads : CanStep(t)

\* one thread holds _state_lock while another one is inside
\* increment_retry_count with the store's lock taken twice
C33_Witness ==
  /\ lock.state # None /\ lock.storage # None
  /\ lock.state # lock.storage
  /\ lock.depth = 2

\* the fields a progress dict holds
PresentFields(p) ==
  [status |-> p.status # "-", percent |-> p.percent # Absent,
   retry_attempt |-> p.retry_attempt # Absent,
   bytes_transferred |-> p.bytes_transferred # Absent,
   error_message |-> p.error_message]

\* C34: a progress update merges into the progress substructure: a field that
\* is in progress before an update is still in it afterwards (with the value
\* of the update, or with its old value if the update does not carry it).
C34_ProgressMerged ==
  [][\A j \in JobIds :
       (HasJob(j) /\ j \in DOMAIN jobs') =>
         \A f \in DOMAIN NoProgress :
           PresentFields(jobs[j].progress)[f] => PresentFields(jobs'[j].progress)[f]]_vars

\* C35: stop_job on a live process: the stop flag is set before SIGTERM is
\* sent, SIGKILL is sent only after SIGTERM and a wait that left the process
\* alive, the join of the worker comes after the signals, and the call returns
\* True also when the worker has not ended in time.
C35_StopEscalationOrder ==
  LET e == returned.events
  IN /\ \A i \in DOMAIN e :
          /\ e[i] = "SIGTERM" => \E h \in 1..(i - 1) : e[h] = "flag_set"
          /\ e[i] = "SIGKILL" =>
               /\ i > 2 /\ e[i - 1] = "alive_after_wait"
               /\ \E h \in 1..(i - 1) : e[h] = "SIGTERM"
          /\ e[i] \in {"joined", "join_timeout"} =>
               \A h \in DOMAIN e : e[h] \in {"SIGTERM", "SIGKILL"} => h < i
     /\ (\E i \in DOMAIN e : e[i] \in {"joined", "join_timeout"}) => returned.value = "True"

\* a pause_job call on j has set the flag and not yet stored the status
PauseStoring(j) ==
  \E k \in Callers : calls[k].op = "pause" /\ calls[k].pc = "store" /\ calls[k].job = j

\* C36: whenever the paused flag of a job is true (and the pause that set it
\* has stored its status), the stored status is paused.
C36_PausedFlagMeansPaused ==
  \A j \in JobIds :
    (HasJob(j) /\ is_paused(j) /\ ~ PauseStoring(j)) => jobs[j].status = "paused"

\* the reconciler call k writes failed to a record in this step
ZombieWritten(k) ==
  /\ calls[k].op = "cleanup" /\ calls[k].pc = "write"
  /\ calls'[k].pc = "status"
  /\ jobs' # jobs

\* job j has a worker, a process, or a retry attempt that is being launched
\* or is executing
HasLiveWorker(j) ==
  \/ is_tracked(j)
  \/ \E c \in ChainsOf(j) : Executing(c) \/ chain[c].pc = "retry"

\* C37: the reconciler writes failed only to a record that at the moment of
\* the write has a status it reclassifies (running) and no live worker or
\* process.
C37_ZombieWriteStillZombie ==
  [][\A k \in Callers :
       ZombieWritten(k) =>
         LET j == Head(calls[k].todo)
         IN /\ jobs[j].status \in problematic_statuses(calls[k].kind)
            /\ ~ HasLiveWorker(j)]_vars

\* chain c runs the deletions of its finally block in this step
CleansUp(c) == chain[c].pc = "finally" /\ chain'[c].pc \in {"sleep", "done"}

\* C38: the cleanup of an attempt leaves alone the process handle and the
\* worker handle that another attempt of the same job has registered.
C38_CleanupOwnEntriesOnly ==
  [][\A c \in Chains :
       CleansUp(c) =>
         LET j == chain[c].job
         IN /\ job_processes[j] \notin {None, c} => job_processes'[j] = job_processes[j]
            /\ running_jobs[j] \notin {None, c} => running_jobs'[j] = running_jobs[j]]_vars

\* thread t returns from a call that changed the list and saved it
SavedNow(t) == ops[t].pc = "replace" /\ ops'[t].op = "idle" /\ lock' = None
                 /\ Len(returned'.results) = Len(returned.results) + 1
                 /\ returned'.results[Len(returned'.results)].value # raised_by_failed_write

\* C39: after every create, update, delete or increment that saved and
\* returned, the primary file holds the list in memory, and a store
\* constructed from the files holds the same records.
C39_PersistenceRoundTrip ==
  [][\A t \in Threads :
       SavedNow(t) =>
         /\ files'.primary = Doc(jobs')
         /\ load_jobs(files').result = Loaded(jobs')]_vars

\* a write has failed and left its change in memory, and a later call of
\* another kind has saved: the file holds the list in memory again
C39_Witness ==
  /\ StoreQuiet /\ Len(jobs) >= 1
  /\ files.primary = Doc(jobs)
  /\ Len(returned.results) >= 2
  /\ returned.results[1].value = raised_by_failed_write
  /\ returned.results[Len(returned.results)].value # raised_by_failed_write
  /\ returned.results[Len(returned.results)].op \in {"update", "increment", "delete"}

\* the startup reconciliation of the job store has run to its end in a process
\* whose registry is empty
StartupCleanupDone ==
  /\ \A j \in DOMAIN jobs : ~ is_tracked(j)
  /\ \A c \in Chains : chain[c] = NoChain /\ proc[c] = "none"
  /\ returned # <<>>
  /\ returned.op = "cleanup" /\ returned.kind = "rsync"
  /\ \A k \in Callers : calls[k].op = "idle"

\* C40: after a restart, which leaves the registry empty, and the startup
\* reconciliation of the job store, no record has status running or paused.
C40_NoActivityAfterRestart ==
  StartupCleanupDone =>
    \A j \in DOMAIN jobs : jobs[j].status \notin {"running", "paused"}

====
